---- MODULE Spec2Model ----
(***************************************************************************)
(* auditctl: a hash-chained, append-only audit log.                        *)
(*                                                                         *)
(* The model follows src/src/lib/logger.ts (AuditLogger, computeEntryHash, *)
(* sanitizeInputs) and src/unnamed/part_000 (FileStorage: the JSONL file,  *)
(* its readers and verifyIntegrity).                                       *)
(*                                                                         *)
(* JavaScript values are tagged tuples, so that values of different types  *)
(* can be compared: <<"string", s>>, <<"number", n>>, <<"undefined">> ...  *)
(* An object is an ordered list of <<key, value>> pairs (own enumerable    *)
(* properties in insertion order).  SHA-256 is modelled as collision free: *)
(* the digest of a text is the text under the tag "sha256".                *)
(***************************************************************************)
EXTENDS Integers, Sequences, FiniteSets, TLC

\* ------------------------------------------------------------------ bounds
MaxEntries == 3
MaxTime == 2
MaxLoggers == 2
MaxCallers == 2
MaxCalls == 1

\* ------------------------------------------------------- JavaScript values
Undefined == <<"undefined">>
Null == <<"null">>
NaN == <<"NaN">>
Str(s) == <<"string", s>>
Num(n) == <<"number", n>>
Bool(b) == <<"boolean", b>>
Arr(xs) == <<"array", xs>>
Obj(ps) == <<"object", ps>>
\* a v4 uuid (a string), the n-th one generated
Uuid(n) == <<"uuid", n>>
\* the ISO-8601 string Date.toISOString() gives at millisecond t
IsoDate(t) == <<"isodate", t>>

TypeTag(v) == v[1]

\* ToBoolean(v), as `if (v)`, `v || w` and `!v` apply it
Truthy(v) ==
    /\ v # Undefined
    /\ v # Null
    /\ v # NaN
    /\ v # Str("")
    /\ v # Num(0)
    /\ v # Bool(FALSE)

\* a || b
Or(a, b) == IF Truthy(a) THEN a ELSE b

\* typeof v === 'object' && v !== null
IsObjectLike(v) == TypeTag(v) \in {"object", "array"}

\* position of key k among the pairs ps, 0 when absent
KeyIndex(ps, k) ==
    LET hits == {i \in 1..Len(ps) : ps[i][1] = k}
    IN IF hits = {} THEN 0 ELSE CHOOSE i \in hits : \A j \in hits : i <= j

\* o.k : property access; an absent property reads as undefined
Get(o, k) ==
    IF TypeTag(o) # "object" THEN Undefined
    ELSE IF \E i \in 1..Len(o[2]) : o[2][i][1] = k
         THEN o[2][CHOOSE i \in 1..Len(o[2]) : o[2][i][1] = k][2]
         ELSE Undefined

\* o[k] = v on the pair list ps: an existing key keeps its place
SetPair(ps, k, v) ==
    LET i == KeyIndex(ps, k)
    IN IF i = 0 THEN Append(ps, <<k, v>>) ELSE [ps EXCEPT ![i] = <<k, v>>]

\* the pairs of {...a, ...b}, a and b pair lists
RECURSIVE SpreadPairs(_, _)
SpreadPairs(a, b) ==
    IF b = <<>> THEN a
    ELSE SpreadPairs(SetPair(a, Head(b)[1], Head(b)[2]), Tail(b))

\* the own enumerable pairs `...v` contributes (none for undefined / null)
OwnPairs(v) == IF TypeTag(v) = "object" THEN v[2] ELSE <<>>

\* ------------------------------------------------------------------- JSON
\* JSON.stringify: the value a JSON text denotes.  Inside an object a key
\* whose value is undefined is left out; inside an array undefined becomes
\* null; NaN becomes null.  Key order is kept.
RECURSIVE ToJSON(_)
ToJSON(v) ==
    CASE TypeTag(v) = "object" ->
           LET kept == SelectSeq(v[2], LAMBDA p : p[2] # Undefined)
           IN Obj([i \in 1..Len(kept) |-> <<kept[i][1], ToJSON(kept[i][2])>>])
      [] TypeTag(v) = "array" ->
           Arr([i \in 1..Len(v[2]) |->
                  IF v[2][i] = Undefined THEN Null ELSE ToJSON(v[2][i])])
      [] TypeTag(v) = "NaN" -> Null
      [] OTHER -> v

JSONstringify(v) == <<"json", ToJSON(v)>>

\* a line JSON.parse accepts
IsJSON(line) == line[1] = "json"
JSONparse(line) == line[2]

\* crypto.createHash('sha256').update(content).digest('hex')
sha256(content) == <<"sha256", content>>

\* ---------------------------------------------------------- sanitizeInputs
\* The spelling of the keys that occur, for toLowerCase() and includes().
Spelling ==
    [ssn |-> <<"s", "s", "n">>,
     social_security |-> <<"s", "o", "c", "i", "a", "l", "_",
                           "s", "e", "c", "u", "r", "i", "t", "y">>,
     socialSecurity |-> <<"s", "o", "c", "i", "a", "l",
                          "S", "e", "c", "u", "r", "i", "t", "y">>,
     ssn_last4 |-> <<"s", "s", "n", "_", "l", "a", "s", "t", "4">>,
     password |-> <<"p", "a", "s", "s", "w", "o", "r", "d">>,
     secret |-> <<"s", "e", "c", "r", "e", "t">>,
     token |-> <<"t", "o", "k", "e", "n">>,
     api_key |-> <<"a", "p", "i", "_", "k", "e", "y">>,
     apiKey |-> <<"a", "p", "i", "K", "e", "y">>,
     account_number |-> <<"a", "c", "c", "o", "u", "n", "t", "_",
                          "n", "u", "m", "b", "e", "r">>,
     accountNumber |-> <<"a", "c", "c", "o", "u", "n", "t",
                         "N", "u", "m", "b", "e", "r">>,
     routing_number |-> <<"r", "o", "u", "t", "i", "n", "g", "_",
                          "n", "u", "m", "b", "e", "r">>,
     routingNumber |-> <<"r", "o", "u", "t", "i", "n", "g",
                         "N", "u", "m", "b", "e", "r">>,
     base |-> <<"b", "a", "s", "e">>,
     income |-> <<"i", "n", "c", "o", "m", "e">>,
     borrower |-> <<"b", "o", "r", "r", "o", "w", "e", "r">>,
     name |-> <<"n", "a", "m", "e">>,
     SSN |-> <<"S", "S", "N">>,
     tokens |-> <<"t", "o", "k", "e", "n", "s">>,
     scores |-> <<"s", "c", "o", "r", "e", "s">>]
    @@ ("0" :> <<"0">>) @@ ("1" :> <<"1">>) @@ ("2" :> <<"2">>)

Spell(key) == Spelling[key]

UpperCase ==
    <<"A", "B", "C", "D", "E", "F", "G", "H", "I", "J", "K", "L", "M",
      "N", "O", "P", "Q", "R", "S", "T", "U", "V", "W", "X", "Y", "Z">>
LowerCase ==
    <<"a", "b", "c", "d", "e", "f", "g", "h", "i", "j", "k", "l", "m",
      "n", "o", "p", "q", "r", "s", "t", "u", "v", "w", "x", "y", "z">>

\* String.prototype.toLowerCase, on a spelling
toLowerCase(cs) ==
    [i \in 1..Len(cs) |->
       IF \E j \in 1..Len(UpperCase) : UpperCase[j] = cs[i]
       THEN LowerCase[CHOOSE j \in 1..Len(UpperCase) : UpperCase[j] = cs[i]]
       ELSE cs[i]]

\* String.prototype.includes, on spellings
includes(hay, needle) ==
    \E i \in 0..(Len(hay) - Len(needle)) :
       SubSeq(hay, i + 1, i + Len(needle)) = needle

sensitiveKeys ==
    <<"ssn", "social_security", "socialSecurity", "ssn_last4", "password",
      "secret", "token", "api_key", "apiKey", "account_number",
      "accountNumber", "routing_number", "routingNumber">>

\* sk.toLowerCase() of every sensitive key
LowerSensitiveKeys ==
    [n \in 1..Len(sensitiveKeys) |-> toLowerCase(Spell(sensitiveKeys[n]))]

\* sensitiveKeys.some((sk) => lowerKey.includes(sk.toLowerCase())), for
\* every key that is spelled
SensitiveKey ==
    [key \in DOMAIN Spelling |->
       LET lowerKey == toLowerCase(Spell(key))
       IN \E n \in 1..Len(sensitiveKeys) :
             includes(lowerKey, LowerSensitiveKeys[n])]

IsSensitiveKey(key) == SensitiveKey[key]

Redacted == Str("[REDACTED]")

IndexKeyOf(i) == <<"0", "1", "2">>[i + 1]

\* Object.entries(v): of an array, its indices (as strings) and elements
EntriesOf(v) ==
    IF TypeTag(v) = "array"
    THEN [i \in 1..Len(v[2]) |-> <<IndexKeyOf(i - 1), v[2][i]>>]
    ELSE OwnPairs(v)

RECURSIVE sanitizeInputs(_)
sanitizeInputs(inputs) ==
    LET es == EntriesOf(inputs)
    IN Obj([i \in 1..Len(es) |->
              IF IsSensitiveKey(es[i][1]) THEN <<es[i][1], Redacted>>
              ELSE IF IsObjectLike(es[i][2])
                   THEN <<es[i][1], sanitizeInputs(es[i][2])>>
                   ELSE es[i]])

\* ------------------------------------------------------------ audit entry
\* An entry in memory is a record of its seventeen properties; a property
\* that is absent reads as undefined.
EntryKeys ==
    <<"auditId", "timestamp", "tool", "command", "toolVersion", "inputs",
      "outputs", "rationale", "warnings", "compliance", "operator",
      "sessionId", "parentAuditId", "loanId", "durationMs", "previousHash",
      "entryHash">>

\* the object whose own properties are the record's fields, in key order
EntryObject(e) == Obj([i \in 1..Len(EntryKeys) |-> <<EntryKeys[i], e[EntryKeys[i]]>>])

\* the entry read back from a parsed line
EntryRecord(o) == [k \in {EntryKeys[i] : i \in 1..Len(EntryKeys)} |-> Get(o, k)]

HashedKeys == SubSeq(EntryKeys, 1, 16)

\* (mutant) durationMs is left out of the hashed content
computeEntryHash_noDuration(entry) ==
    sha256(JSONstringify(
        Obj([i \in 1..Len(HashedKeys) |->
               <<HashedKeys[i],
                 IF HashedKeys[i] = "durationMs" THEN Undefined
                 ELSE entry[HashedKeys[i]]>>])))

\* (mutant) the whole entry is serialised, entryHash included
computeEntryHash_wholeEntry(entry) ==
    LET keys == SelectSeq(EntryKeys, LAMBDA k : k \in DOMAIN entry)
    IN sha256(JSONstringify(Obj([i \in 1..Len(keys) |-> <<keys[i], entry[keys[i]]>>])))

computeEntryHash(entry) ==
    LET content == JSONstringify(
            Obj([i \in 1..Len(HashedKeys) |-> <<HashedKeys[i], entry[HashedKeys[i]]>>]))
    IN sha256(content)

\* ------------------------------------------------------------ FileStorage
\* (mutant) writeFile in place of appendFile: the file is replaced
append_overwrite(f, entry) == <<JSONstringify(EntryObject(entry))>>

\* The file is the sequence of its lines.  Besides a JSON text a line can be
\* blank, some other text, or - as the last line only - the beginning of a
\* JSON text that no newline ends yet.
Blank == <<"blank">>
Text(t) == <<"text", t>>
Fragment(t) == <<"fragment", t>>

\* !line.trim()
IsBlank(line) == line[1] = "blank"

IsUnterminated(f) == Len(f) > 0 /\ f[Len(f)][1] = "fragment"

\* bytes appended to the file go on its last line when no newline ends it:
\* the two together are not a JSON text
appendText(f, line) ==
    IF IsUnterminated(f)
    THEN [f EXCEPT ![Len(f)] =
            IF line[1] = "fragment" THEN Fragment(<<f[Len(f)][2], line[2]>>)
            ELSE Text(<<f[Len(f)][2], line[2]>>)]
    ELSE Append(f, line)

\* appendFile(filePath, JSON.stringify(entry) + '\n')
append(f, entry) == appendText(f, JSONstringify(EntryObject(entry)))

\* (mutant) reading stops at the first line that does not parse
readAllEntries_untilInvalid(f) ==
    LET bad == {i \in 1..Len(f) : ~IsBlank(f[i]) /\ ~IsJSON(f[i])}
        read == IF bad = {} THEN f
                ELSE SubSeq(f, 1, (CHOOSE i \in bad : \A j \in bad : i <= j) - 1)
        parsed == SelectSeq(read, LAMBDA line : ~IsBlank(line) /\ IsJSON(line))
    IN [i \in 1..Len(parsed) |-> EntryRecord(JSONparse(parsed[i]))]

\* readAllEntries: the lines that are not blank and that parse, in file order
readAllEntries(f) ==
    LET parsed == SelectSeq(f, LAMBDA line : ~IsBlank(line) /\ IsJSON(line))
    IN [i \in 1..Len(parsed) |-> EntryRecord(JSONparse(parsed[i]))]

\* (mutant) only the last line of the file is read
getLastEntry_lastLine(f) ==
    IF Len(f) > 0 /\ IsJSON(f[Len(f)])
    THEN <<EntryRecord(JSONparse(f[Len(f)]))>> ELSE <<>>

\* (mutant) the first entry is returned
getLastEntry_first(f) ==
    LET entries == readAllEntries(f)
    IN IF Len(entries) > 0 THEN <<entries[1]>> ELSE <<>>

\* null is the empty tuple, an entry e is <<e>>
getLastEntry(f) ==
    LET entries == readAllEntries(f)
    IN IF Len(entries) > 0 THEN <<entries[Len(entries)]>> ELSE <<>>

\* (mutant) only the first entry is looked at
getById_firstOnly(f, auditId) ==
    LET entries == readAllEntries(f)
    IN IF Len(entries) > 0 /\ entries[1].auditId = auditId
       THEN <<entries[1]>> ELSE <<>>

\* entries.find((e) => e.auditId === auditId) || null
getById(f, auditId) ==
    LET entries == readAllEntries(f)
        hits == {i \in 1..Len(entries) : entries[i].auditId = auditId}
    IN IF hits = {} THEN <<>>
       ELSE <<entries[CHOOSE i \in hits : \A j \in hits : i <= j]>>

\* new Date(s).getTime(): the millisecond of an ISO string, NaN otherwise
getTime(s) == IF TypeTag(s) = "isodate" THEN Num(s[2]) ELSE NaN
\* a >= b and a <= b on numbers; false when either is NaN
NumGE(a, b) == a # NaN /\ b # NaN /\ a[2] >= b[2]
NumLE(a, b) == a # NaN /\ b # NaN /\ a[2] <= b[2]

Max(a, b) == IF a >= b THEN a ELSE b
Min(a, b) == IF a <= b THEN a ELSE b

\* Array.prototype.slice(start, end) on integers
slice(xs, start, end) ==
    LET n == Len(xs)
        from == IF start < 0 THEN Max(n + start, 0) ELSE Min(start, n)
        to == IF end < 0 THEN Max(n + end, 0) ELSE Min(end, n)
    IN SubSeq(xs, from + 1, to)

\* (mutant) the endDate filter is left out
QueryFilter_noEndDate(options, e) ==
    /\ Truthy(options.loanId) => e.loanId = options.loanId
    /\ Truthy(options.tool) => e.tool = options.tool
    /\ Truthy(options.command) => e.command = options.command
    /\ Truthy(options.operator) => e.operator = options.operator
    /\ Truthy(options.sessionId) => e.sessionId = options.sessionId
    /\ Truthy(options.startDate) =>
          NumGE(getTime(e.timestamp), getTime(options.startDate))
    /\ Truthy(options.hasRiskFlags) =>
          LET riskFlags == Get(e.compliance, "riskFlags")
          IN Truthy(riskFlags) /\ TypeTag(riskFlags) = "array" /\ Len(riskFlags[2]) > 0
    /\ options.humanReviewRequired # Undefined =>
          Get(e.compliance, "humanReviewRequired") = options.humanReviewRequired

\* (mutant) hasRiskFlags = false keeps the entries without risk flags
QueryFilter_riskFlagsEither(options, e) ==
    /\ Truthy(options.loanId) => e.loanId = options.loanId
    /\ Truthy(options.tool) => e.tool = options.tool
    /\ Truthy(options.command) => e.command = options.command
    /\ Truthy(options.operator) => e.operator = options.operator
    /\ Truthy(options.sessionId) => e.sessionId = options.sessionId
    /\ Truthy(options.startDate) =>
          NumGE(getTime(e.timestamp), getTime(options.startDate))
    /\ Truthy(options.endDate) =>
          NumLE(getTime(e.timestamp), getTime(options.endDate))
    /\ options.hasRiskFlags # Undefined =>
          LET riskFlags == Get(e.compliance, "riskFlags")
          IN options.hasRiskFlags =
                Bool(Truthy(riskFlags) /\ TypeTag(riskFlags) = "array"
                     /\ Len(riskFlags[2]) > 0)
    /\ options.humanReviewRequired # Undefined =>
          Get(e.compliance, "humanReviewRequired") = options.humanReviewRequired

\* the filters of query, applied in the order of the source
QueryFilter(options, e) ==
    /\ Truthy(options.loanId) => e.loanId = options.loanId
    /\ Truthy(options.tool) => e.tool = options.tool
    /\ Truthy(options.command) => e.command = options.command
    /\ Truthy(options.operator) => e.operator = options.operator
    /\ Truthy(options.sessionId) => e.sessionId = options.sessionId
    /\ Truthy(options.startDate) =>
          NumGE(getTime(e.timestamp), getTime(options.startDate))
    /\ Truthy(options.endDate) =>
          NumLE(getTime(e.timestamp), getTime(options.endDate))
    /\ Truthy(options.hasRiskFlags) =>
          LET riskFlags == Get(e.compliance, "riskFlags")
          IN Truthy(riskFlags) /\ TypeTag(riskFlags) = "array" /\ Len(riskFlags[2]) > 0
    /\ options.humanReviewRequired # Undefined =>
          Get(e.compliance, "humanReviewRequired") = options.humanReviewRequired

query(f, options) ==
    LET entries == readAllEntries(f)
        filtered == SelectSeq(entries, LAMBDA e : QueryFilter(options, e))
        offset == Or(options.offset, Num(0))[2]
        limit == Or(options.limit, Num(Len(filtered)))[2]
    IN slice(filtered, offset, offset + limit)

\* count(options?): no options is the empty tuple, options o is <<o>>
count(f, options) ==
    IF Len(options) > 0 THEN Len(query(f, options[1]))
    ELSE Len(readAllEntries(f))

PreviousHashMismatch == "Previous hash mismatch"
EntryHashMismatch == "Entry hash mismatch - possible tampering"

\* (mutant) the loop index is taken for the entry's index: the entry before
\* is the one before in toCheck
Located_inChecked(entries, toCheck, i) ==
    <<[j \in 1..Len(toCheck) |-> entries[toCheck[j]]], i>>

\* toCheck holds the positions in entries of the entries to report on.
\* entry = toCheck[i], entryIndex = entries.indexOf(entry): the list the
\* entry before is read from, and the entry's position in it
Located(entries, toCheck, i) == <<entries, toCheck[i]>>

\* (mutant) the link is compared with the recomputed hash of the entry before
LinkBroken_recomputed(entry, previousEntry) ==
    entry.previousHash # computeEntryHash(previousEntry)

\* entry.previousHash !== previousEntry.entryHash
LinkBroken(entry, previousEntry) ==
    entry.previousHash # previousEntry.entryHash

PreviousHashFailure(entry, previousEntry) ==
    [auditId |-> entry.auditId,
     timestamp |-> entry.timestamp,
     reason |-> PreviousHashMismatch,
     expectedHash |-> previousEntry.entryHash,
     actualHash |-> entry.previousHash]

\* computeEntryHash reads the sixteen hashed properties only, so the entry
\* stands for the entryWithoutHash of the source
EntryHashFailure(entry, computedHash) ==
    [auditId |-> entry.auditId,
     timestamp |-> entry.timestamp,
     reason |-> EntryHashMismatch,
     expectedHash |-> entry.entryHash,
     actualHash |-> computedHash]

\* (mutant) the entry's own hash is checked before its link
CheckEntry_hashFirst(entries, entryIndex) ==
    LET entry == entries[entryIndex]
        computedHash == computeEntryHash(entry)
    IN IF computedHash # entry.entryHash
       THEN <<EntryHashFailure(entry, computedHash)>>
       ELSE IF entryIndex > 1 /\ LinkBroken(entry, entries[entryIndex - 1])
            THEN <<PreviousHashFailure(entry, entries[entryIndex - 1])>>
            ELSE <<>>

\* (mutant) the first entry of the file is required to have no previousHash
CheckEntry_firstUnlinked(entries, entryIndex) ==
    LET entry == entries[entryIndex]
        computedHash == computeEntryHash(entry)
    IN IF entryIndex > 1 /\ LinkBroken(entry, entries[entryIndex - 1])
       THEN <<PreviousHashFailure(entry, entries[entryIndex - 1])>>
       ELSE IF entryIndex = 1 /\ entry.previousHash # Undefined
            THEN <<PreviousHashFailure(entry, [entryHash |-> Undefined])>>
            ELSE IF computedHash # entry.entryHash
                 THEN <<EntryHashFailure(entry, computedHash)>>
                 ELSE <<>>

\* (mutant) the link to the entry before is not looked at
CheckEntry_hashOnly(entries, entryIndex) ==
    LET entry == entries[entryIndex]
        computedHash == computeEntryHash(entry)
    IN IF computedHash # entry.entryHash
       THEN <<EntryHashFailure(entry, computedHash)>>
       ELSE <<>>

\* (mutant) no `continue` after a broken link: the entry's own hash is
\* checked as well
CheckEntry_bothChecks(entries, entryIndex) ==
    LET entry == entries[entryIndex]
        computedHash == computeEntryHash(entry)
    IN (IF entryIndex > 1 /\ LinkBroken(entry, entries[entryIndex - 1])
        THEN <<PreviousHashFailure(entry, entries[entryIndex - 1])>> ELSE <<>>)
       \o (IF computedHash # entry.entryHash
           THEN <<EntryHashFailure(entry, computedHash)>> ELSE <<>>)

\* one pass of the loop body: the failure pushed for the entry, if any
CheckEntry(entries, entryIndex) ==
    LET entry == entries[entryIndex]
        computedHash == computeEntryHash(entry)
    IN IF entryIndex > 1 /\ LinkBroken(entry, entries[entryIndex - 1])
       THEN <<PreviousHashFailure(entry, entries[entryIndex - 1])>>
       ELSE IF computedHash # entry.entryHash
            THEN <<EntryHashFailure(entry, computedHash)>>
            ELSE <<>>

\* (mutant) no `continue` after a failure: the entry is counted valid too
Tally_noContinue(acc, outcome) ==
    [failures |-> acc.failures \o outcome, validEntries |-> acc.validEntries + 1]

\* failures.push(...); continue  or  validEntries++
Tally(acc, outcome) ==
    IF Len(outcome) > 0
    THEN [acc EXCEPT !.failures = acc.failures \o outcome]
    ELSE [acc EXCEPT !.validEntries = acc.validEntries + 1]

\* the loop of verifyIntegrity over toCheck, from i on
RECURSIVE VerifyLoop(_, _, _, _)
VerifyLoop(entries, toCheck, i, acc) ==
    IF i > Len(toCheck) THEN acc
    ELSE LET at == Located(entries, toCheck, i)
         IN VerifyLoop(entries, toCheck, i + 1,
                       Tally(acc, CheckEntry(at[1], at[2])))

\* (mutant) fromDate is not looked at: every entry is reported on
ToCheck_all(entries, fromDate) == [i \in 1..Len(entries) |-> i]

\* the positions (in entries) of the entries verifyIntegrity reports on
ToCheck(entries, fromDate) ==
    LET all == [i \in 1..Len(entries) |-> i]
    IN IF Truthy(fromDate)
       THEN SelectSeq(all, LAMBDA i :
              NumGE(getTime(entries[i].timestamp), getTime(fromDate)))
       ELSE all

verifyIntegrity(f, fromDate) ==
    LET entries == readAllEntries(f)
        toCheck == ToCheck(entries, fromDate)
        done == VerifyLoop(entries, toCheck, 1, [failures |-> <<>>, validEntries |-> 0])
    IN [valid |-> Len(done.failures) = 0,
        entriesChecked |-> Len(toCheck),
        validEntries |-> done.validEntries,
        invalidEntries |-> Len(done.failures),
        failures |-> done.failures]

\* ------------------------------------------------------------ AuditLogger
defaultComplianceInfo ==
    << <<"regulations", Arr(<<>>)>>,
       <<"riskFlags", Arr(<<>>)>>,
       <<"humanReviewRequired", Bool(FALSE)>> >>

\* new AuditLogger(storage, options): the fields of the logger
AuditLogger(options) ==
    [defaultOperator |-> Or(Get(options, "defaultOperator"), Str("system")),
     sessionId |-> Get(options, "sessionId")]

\* (mutant) the link is taken from the last entry's previousHash
previousHash_stale(lastEntry) ==
    IF Len(lastEntry) = 0 THEN Undefined ELSE lastEntry[1].previousHash

\* const previousHash = lastEntry?.entryHash
previousHash(lastEntry) ==
    IF Len(lastEntry) = 0 THEN Undefined ELSE lastEntry[1].entryHash

\* (mutant) the inputs are stored as the caller gave them
entryWithoutHash_rawInputs(logger, options, prevHash, id, now) ==
    [auditId |-> Uuid(id),
     timestamp |-> IsoDate(now),
     tool |-> options.tool,
     command |-> options.command,
     toolVersion |-> options.toolVersion,
     inputs |-> options.inputs,
     outputs |-> options.outputs,
     rationale |-> options.rationale,
     warnings |-> Or(options.warnings, Arr(<<>>)),
     compliance |-> Obj(SpreadPairs(defaultComplianceInfo,
                                    OwnPairs(options.compliance))),
     operator |-> Or(options.operator, logger.defaultOperator),
     sessionId |-> Or(options.sessionId, logger.sessionId),
     parentAuditId |-> options.parentAuditId,
     loanId |-> options.loanId,
     durationMs |-> options.durationMs,
     previousHash |-> prevHash]

\* the entry built without its hash; uuidv4() = Uuid(id), new Date() = now
entryWithoutHash(logger, options, prevHash, id, now) ==
    [auditId |-> Uuid(id),
     timestamp |-> IsoDate(now),
     tool |-> options.tool,
     command |-> options.command,
     toolVersion |-> options.toolVersion,
     inputs |-> sanitizeInputs(options.inputs),
     outputs |-> options.outputs,
     rationale |-> options.rationale,
     warnings |-> Or(options.warnings, Arr(<<>>)),
     compliance |-> Obj(SpreadPairs(defaultComplianceInfo,
                                    OwnPairs(options.compliance))),
     operator |-> Or(options.operator, logger.defaultOperator),
     sessionId |-> Or(options.sessionId, logger.sessionId),
     parentAuditId |-> options.parentAuditId,
     loanId |-> options.loanId,
     durationMs |-> options.durationMs,
     previousHash |-> prevHash]

\* (mutant) the hash is computed over the inputs as the caller gave them
logEntry_hashRaw(logger, options, lastEntry, id, now) ==
    LET e == entryWithoutHash(logger, options, previousHash(lastEntry), id, now)
    IN e @@ [entryHash |-> computeEntryHash([e EXCEPT !.inputs = options.inputs])]

\* (mutant) the hash is computed before the link to the last entry is set
logEntry_hashBeforeLink(logger, options, lastEntry, id, now) ==
    LET e == entryWithoutHash(logger, options, previousHash(lastEntry), id, now)
    IN e @@ [entryHash |-> computeEntryHash([e EXCEPT !.previousHash = Undefined])]

\* the entry log() appends and returns, given what getLastEntry() returned
logEntry(logger, options, lastEntry, id, now) ==
    LET e == entryWithoutHash(logger, options, previousHash(lastEntry), id, now)
    IN e @@ [entryHash |-> computeEntryHash(e)]

\* outputs of logDecision: {...options.outputs, decision}, and the adverse
\* action reasons of a decline
decisionOutputs(options, decision, declineReasons) ==
    LET outputs == SetPair(OwnPairs(options.outputs), "decision", decision)
    IN IF decision = Str("declined")
       THEN SetPair(outputs, "adverseActionReasons",
                    Or(declineReasons, Arr(<<Str("Unspecified reason")>>)))
       ELSE outputs

\* (mutant) the two codes are put before the caller's regulations
decisionRegulations_first(options) ==
    Arr(<<Str("ECOA"), Str("Reg B")>>
        \o Or(Get(options.compliance, "regulations"), Arr(<<>>))[2])

\* [...(options.compliance?.regulations || []), 'ECOA', 'Reg B']
decisionRegulations(options) ==
    Arr(Or(Get(options.compliance, "regulations"), Arr(<<>>))[2]
        \o <<Str("ECOA"), Str("Reg B")>>)

\* (mutant) the caller's humanReviewRequired is taken when it is given
decisionHumanReview_asGiven(options, decision) ==
    IF Get(options.compliance, "humanReviewRequired") # Undefined
    THEN Get(options.compliance, "humanReviewRequired")
    ELSE Bool(decision = Str("declined"))

\* decision === 'declined' || options.compliance?.humanReviewRequired || false
decisionHumanReview(options, decision) ==
    IF decision = Str("declined") THEN Bool(TRUE)
    ELSE Or(Get(options.compliance, "humanReviewRequired"), Bool(FALSE))

\* the options logDecision hands to log(); decision and declineReasons are
\* JavaScript values
decisionOptions(options, decision, declineReasons) ==
    [options EXCEPT
       !.outputs = Obj(decisionOutputs(options, decision, declineReasons)),
       !.compliance =
          Obj(SetPair(SetPair(OwnPairs(options.compliance),
                              "regulations", decisionRegulations(options)),
                      "humanReviewRequired", decisionHumanReview(options, decision)))]

\* (mutant) the new logger is given the session of the logger it came from
startSession_inherited(logger, sessionId, id) ==
    AuditLogger(Obj(<< <<"defaultOperator", logger.defaultOperator>>,
                       <<"sessionId", logger.sessionId>> >>))

\* startSession(sessionId): the new logger; uuidv4() = id
startSession(logger, sessionId, id) ==
    AuditLogger(Obj(<< <<"defaultOperator", logger.defaultOperator>>,
                       <<"sessionId", Or(sessionId, Uuid(id))>> >>))

\* ------------------------------------------------------- inputs of the model
\* AuditEntryOptions: a property the caller leaves out is undefined
BaseOptions ==
    [tool |-> Str("finctl"),
     command |-> Str("income w2"),
     toolVersion |-> Str("0.1.0"),
     inputs |-> Obj(<< <<"base", Num(85000)>>, <<"ssn", Str("123-45-6789")>> >>),
     outputs |-> Obj(<< <<"monthlyIncome", Num(7083)>>, <<"ratio", NaN>> >>),
     rationale |-> Str("W-2 base income calculation"),
     warnings |-> Undefined,
     compliance |-> Undefined,
     operator |-> Undefined,
     sessionId |-> Undefined,
     parentAuditId |-> Undefined,
     loanId |-> Undefined,
     durationMs |-> Undefined]

RiskOptions ==
    [BaseOptions EXCEPT
       !.tool = Str("decctl"),
       !.command = Str("decide"),
       !.inputs = Obj(<< <<"borrower", Obj(<< <<"name", Str("John")>>,
                                               <<"socialSecurity", Str("123")>> >>)>>,
                         <<"scores", Arr(<<Num(700), Undefined>>)>> >>),
       !.outputs = Obj(<<>>),
       !.warnings = Arr(<<Str("thin file")>>),
       !.compliance = Obj(<< <<"riskFlags", Arr(<<Str("high-dti")>>)>>,
                             <<"checksPerformed", Undefined>> >>),
       !.operator = Str("alice"),
       !.loanId = Str("L-1"),
       !.durationMs = Num(12)]

\* the calls of logDecision: options, decision, declineReasons
DecisionCalls ==
    {[options |-> BaseOptions,
      decision |-> Str("declined"),
      declineReasons |-> Arr(<<Str("DTI too high")>>)]}

\* AuditQueryOptions
NoFilter ==
    [loanId |-> Undefined, tool |-> Undefined, command |-> Undefined,
     operator |-> Undefined, sessionId |-> Undefined, startDate |-> Undefined,
     endDate |-> Undefined, hasRiskFlags |-> Undefined,
     humanReviewRequired |-> Undefined, limit |-> Undefined,
     offset |-> Undefined]

\* the fromDate arguments of verifyIntegrity
FromDates == {Undefined} \cup {IsoDate(t) : t \in 1..MaxTime}

\* ------------------------------------------------------------------ state
VARIABLES
    file,      \* the lines of the audit log file
    loggers,   \* the AuditLogger objects made so far; loggers[1] is the first
    clock,     \* the millisecond the wall clock last showed
    uuids,     \* the number of entry ids uuidv4() has generated
    ret,       \* the last operation: its name, argument and return value
    tamper,    \* the out-of-band change made to the file, if any
    calls      \* per caller, the log() call that has read the last entry
               \* and not yet appended: its entry and what it read

vars == <<file, loggers, clock, uuids, ret, tamper, calls>>

Init ==
    /\ file = <<>>
    /\ loggers = <<AuditLogger(Undefined)>>
    /\ clock = 0
    /\ uuids = 0
    /\ ret = [op |-> "new", arg |-> Undefined, value |-> Undefined]
    /\ tamper = <<>>
    /\ calls = [p \in 1..MaxCallers |-> <<>>]

\* The wall clock when a call reads it.  SteadyClock: each call is made one
\* millisecond after the one before.  AnyClock: a call may fall in the same
\* millisecond as the one before; the clock stops at MaxTime.
SteadyClock == {clock + 1}
AnyClock == {t \in clock..(clock + 1) : 1 <= t /\ t <= MaxTime}

\* AuditLogger.log, called as `op` on logger l at time now; `call` is what
\* the caller passed.  uuidv4() gives
\* the entry the next unused positive number.
LogCall(op, l, call, options, now) ==
    /\ Len(file) < MaxEntries
    /\ LET entry == logEntry(loggers[l], options, getLastEntry(file),
                             uuids + 1, now)
       IN /\ file' = append(file, entry)
          /\ ret' = [op |-> op, arg |-> Num(l), call |-> call, value |-> entry]
    /\ clock' = now
    /\ uuids' = uuids + 1
    /\ UNCHANGED <<loggers, tamper, calls>>

log(l, options, now) == LogCall("log", l, options, options, now)

logDecision(l, call, now) ==
    LogCall("logDecision", l, call,
            decisionOptions(call.options, call.decision, call.declineReasons),
            now)

\* startSession: uuidv4() gives the session the next unused negative number
StartSession(l, sessionId) ==
    /\ Len(loggers) < MaxLoggers
    /\ loggers' = Append(loggers,
                         startSession(loggers[l], sessionId, 0 - Len(loggers)))
    /\ ret' = [op |-> "startSession", arg |-> sessionId,
               value |-> Num(Len(loggers) + 1)]
    /\ UNCHANGED <<file, clock, uuids, tamper, calls>>

Query(options) ==
    /\ ret' = [op |-> "query", arg |-> options, value |-> query(file, options)]
    /\ UNCHANGED <<file, loggers, clock, uuids, tamper, calls>>

Count(options) ==
    /\ ret' = [op |-> "count", arg |-> options, value |-> count(file, options)]
    /\ UNCHANGED <<file, loggers, clock, uuids, tamper, calls>>

GetById(auditId) ==
    /\ ret' = [op |-> "getById", arg |-> auditId, value |-> getById(file, auditId)]
    /\ UNCHANGED <<file, loggers, clock, uuids, tamper, calls>>

GetLastEntry ==
    /\ ret' = [op |-> "getLastEntry", arg |-> Undefined, value |-> getLastEntry(file)]
    /\ UNCHANGED <<file, loggers, clock, uuids, tamper, calls>>

\* (mutant) the verification is itself recorded in the log
VerifyIntegrity_logged(fromDate) ==
    /\ ret' = [op |-> "verifyIntegrity", arg |-> fromDate,
               value |-> verifyIntegrity(file, fromDate),
               rep |-> ret.op = "verifyIntegrity" /\ ret.arg = fromDate]
    /\ file' = Append(file, JSONstringify(Obj(<< <<"command", Str("verify")>> >>)))
    /\ UNCHANGED <<loggers, clock, uuids, tamper, calls>>

\* rep: the call repeats the call before it
VerifyIntegrity(fromDate) ==
    /\ ret' = [op |-> "verifyIntegrity", arg |-> fromDate,
               value |-> verifyIntegrity(file, fromDate),
               rep |-> ret.op = "verifyIntegrity" /\ ret.arg = fromDate]
    /\ UNCHANGED <<file, loggers, clock, uuids, tamper, calls>>

\* Every operation of the logger, called one after the other.
Next ==
    \/ \E l \in 1..Len(loggers), now \in SteadyClock : log(l, RiskOptions, now)
    \/ \E l \in 1..Len(loggers), call \in DecisionCalls, now \in SteadyClock :
          logDecision(l, call, now)
    \/ \E l \in 1..Len(loggers) : StartSession(l, Undefined)
    \/ Query([NoFilter EXCEPT !.tool = Str("finctl")])
    \/ \E options \in {<<>>, <<NoFilter>>} : Count(options)
    \/ \E n \in {1, MaxEntries + 1} : GetById(Uuid(n))
    \/ GetLastEntry
    \/ VerifyIntegrity(Undefined)

Spec == Init /\ [][Next]_vars

\* ------------------------------------------------- out-of-band file edits
\* The log file is an ordinary file: an editor can change a stored line.
\* The values an edit may give property `key` of a stored entry; undefined
\* stands for removing the property from the line.
BogusHash == sha256(JSONstringify(Obj(<<>>)))

EditValues(key, entries) ==
    CASE key = "auditId" -> {Uuid(0)}
      [] key = "timestamp" -> {IsoDate(t) : t \in 1..MaxTime}
      [] key \in {"tool", "command", "toolVersion", "rationale", "operator"} ->
           {Str("edited")}
      [] key \in {"sessionId", "parentAuditId", "loanId"} ->
           {Undefined, Str("edited")}
      [] key = "durationMs" -> {Undefined, Num(1)}
      [] key = "inputs" -> {Obj(<<>>)}
      [] key = "outputs" -> {Obj(<< <<"decision", Str("approved")>> >>)}
      [] key = "warnings" -> {Arr(<<>>)}
      [] key = "compliance" -> {Obj(defaultComplianceInfo)}
      [] key \in {"previousHash", "entryHash"} ->
           {Undefined, BogusHash}
             \cup {entries[i].entryHash : i \in 1..Len(entries)}

\* line k of the file rewritten with property `key` of its entry set to v
EditLine(f, k, key, v) ==
    [f EXCEPT ![k] =
       JSONstringify(EntryObject([EntryRecord(JSONparse(f[k])) EXCEPT ![key] = v]))]

\* One edit of one property of one stored entry, made once.
Edit(k, key, v) ==
    /\ tamper = <<>>
    /\ k \in 1..Len(file)
    /\ v # EntryRecord(JSONparse(file[k]))[key]
    /\ file' = EditLine(file, k, key, v)
    /\ tamper' = <<[k |-> k, key |-> key, len |-> Len(file)]>>
    /\ ret' = [op |-> "edit", arg |-> Num(k), value |-> Str(key)]
    /\ UNCHANGED <<loggers, clock, uuids, calls>>

\* Logging and verifying, with at most one out-of-band edit in between.
NextTamper ==
    \/ \E now \in AnyClock : log(1, RiskOptions, now)
    \/ \E k \in 1..Len(file), n \in 1..Len(EntryKeys) :
          \E v \in EditValues(EntryKeys[n], readAllEntries(file)) :
             Edit(k, EntryKeys[n], v)
    \/ \E fromDate \in FromDates : VerifyIntegrity(fromDate)

SpecTamper == Init /\ [][NextTamper]_vars

\* ------------------------------------------------- overlapping log() calls
\* log() awaits getLastEntry() and later awaits append(): other calls may
\* run between the two.  LogStart is log() up to the call of append: the
\* last entry is read and the entry is built.  `read` is the number of
\* entries the file held when it was read.
InFlight == {p \in 1..MaxCallers : Len(calls[p]) > 0}

LogStart(p, l, options, now) ==
    /\ Len(calls[p]) = 0
    /\ Len(file) + Cardinality(InFlight) < MaxEntries
    /\ calls' = [calls EXCEPT ![p] =
                   <<[entry |-> logEntry(loggers[l], options, getLastEntry(file),
                                         uuids + 1, now),
                      read |-> Len(readAllEntries(file))]>>]
    /\ clock' = now
    /\ uuids' = uuids + 1
    /\ UNCHANGED <<file, loggers, ret, tamper>>

\* (mutant) append links the entry to the last entry of the file as it is
\* when the line is written
LogFinish_relinked(p) ==
    /\ Len(calls[p]) > 0
    /\ LET e == [calls[p][1].entry EXCEPT
                   !.previousHash = previousHash(getLastEntry(file))]
           entry == [e EXCEPT !.entryHash = computeEntryHash(e)]
       IN /\ file' = append(file, entry)
          /\ ret' = [op |-> "log", arg |-> Num(p), value |-> entry,
                     read |-> calls[p][1].read]
    /\ calls' = [calls EXCEPT ![p] = <<>>]
    /\ UNCHANGED <<loggers, clock, uuids, tamper>>

\* LogFinish is the rest of log(): the entry built is appended and returned.
LogFinish(p) ==
    /\ Len(calls[p]) > 0
    /\ LET entry == calls[p][1].entry
       IN /\ file' = append(file, entry)
          /\ ret' = [op |-> "log", arg |-> Num(p), value |-> entry,
                     read |-> calls[p][1].read]
    /\ calls' = [calls EXCEPT ![p] = <<>>]
    /\ UNCHANGED <<loggers, clock, uuids, tamper>>

\* log() calls of several callers on one storage, their steps interleaved.
NextConcurrent ==
    \/ \E p \in 1..MaxCallers, now \in AnyClock : LogStart(p, 1, RiskOptions, now)
    \/ \E p \in 1..MaxCallers : LogFinish(p)
    \/ VerifyIntegrity(Undefined)

SpecConcurrent == Init /\ [][NextConcurrent]_vars

\* ------------------------------------------------------ queries on a log
\* a second kind of entry: logged within a session, for the same loan
SessionOptions ==
    [BaseOptions EXCEPT !.sessionId = Str("S-1"), !.loanId = Str("L-1")]

\* the filters a query is made with, alone and combined
Filters ==
    {NoFilter,
     [NoFilter EXCEPT !.loanId = Str("L-1")],
     [NoFilter EXCEPT !.tool = Str("finctl")],
     [NoFilter EXCEPT !.command = Str("decide")],
     [NoFilter EXCEPT !.operator = Str("alice")],
     [NoFilter EXCEPT !.sessionId = Str("S-1")],
     [NoFilter EXCEPT !.hasRiskFlags = Bool(TRUE)],
     [NoFilter EXCEPT !.hasRiskFlags = Bool(FALSE)],
     [NoFilter EXCEPT !.humanReviewRequired = Bool(TRUE)],
     [NoFilter EXCEPT !.humanReviewRequired = Bool(FALSE)],
     [NoFilter EXCEPT !.tool = Str("finctl"), !.hasRiskFlags = Bool(TRUE)],
     [NoFilter EXCEPT !.tool = Str("finctl"), !.loanId = Str("L-1")],
     [NoFilter EXCEPT !.tool = Str("nonesuch")]}
    \cup {[NoFilter EXCEPT !.startDate = IsoDate(t)] : t \in 1..MaxTime}
    \cup {[NoFilter EXCEPT !.endDate = IsoDate(t)] : t \in 1..MaxTime}
    \cup {[NoFilter EXCEPT !.startDate = IsoDate(t), !.endDate = IsoDate(MaxTime)] :
             t \in 1..MaxTime}

\* limit and offset: left out, or a number from 0 on
Pages == {Undefined} \cup {Num(n) : n \in 0..(MaxEntries - 1)}

\* every filter unpaged, and one of them with every limit and offset
QueryOptions ==
    Filters
    \cup {[NoFilter EXCEPT !.tool = Str("finctl"), !.limit = L, !.offset = O] :
             L \in Pages, O \in Pages}

\* count(): no options, filters, and filters with a limit or an offset
CountOptions ==
    {<<>>,
     <<NoFilter>>,
     <<[NoFilter EXCEPT !.hasRiskFlags = Bool(TRUE)]>>,
     <<[NoFilter EXCEPT !.tool = Str("finctl")]>>,
     <<[NoFilter EXCEPT !.tool = Str("finctl"), !.limit = Num(1)]>>,
     <<[NoFilter EXCEPT !.tool = Str("finctl"), !.offset = Num(1)]>>,
     <<[NoFilter EXCEPT !.limit = Num(MaxEntries), !.offset = Num(0)]>>}

\* Entries of three kinds are logged one after the other and the log is
\* queried and counted.
NextQuery ==
    \/ \E options \in {RiskOptions, SessionOptions}, now \in SteadyClock :
          log(1, options, now)
    \/ \E call \in DecisionCalls, now \in SteadyClock : logDecision(1, call, now)
    \/ \E options \in QueryOptions : Query(options)
    \/ \E options \in CountOptions : Count(options)

SpecQuery == Init /\ [][NextQuery]_vars

\* --------------------------------------------- single calls, every input
\* the options a logger is constructed with
LoggerOptions ==
    {Undefined,
     Obj(<< <<"defaultOperator", Str("test-user")>> >>),
     Obj(<< <<"sessionId", Str("S-9")>> >>),
     Obj(<< <<"defaultOperator", Str("test-user")>>, <<"sessionId", Str("S-9")>> >>)}

TRID == Str("TRID")
HMDA == Str("HMDA")

\* compliance as callers give it: left out, some fields, all fields, - as
\* the log command builds it - humanReviewRequired present but undefined,
\* and regulations that name ECOA already
ComplianceGiven ==
    {Undefined,
     Obj(<< <<"regulations", Arr(<<TRID, HMDA>>)>> >>),
     Obj(<< <<"riskFlags", Arr(<<Str("high-dti")>>)>>,
            <<"humanReviewRequired", Bool(TRUE)>> >>),
     Obj(<< <<"regulations", Arr(<<HMDA, TRID>>)>>,
            <<"riskFlags", Arr(<<>>)>>,
            <<"humanReviewRequired", Bool(FALSE)>> >>),
     Obj(<< <<"regulations", Arr(<<TRID>>)>>,
            <<"riskFlags", Arr(<<>>)>>,
            <<"humanReviewRequired", Undefined>> >>),
     Obj(<< <<"regulations", Arr(<<Str("ECOA"), TRID>>)>> >>)}

\* log() options: each compliance, with warnings, operator and sessionId
\* all left out or all given
LogOptions ==
    {[BaseOptions EXCEPT !.compliance = c] : c \in ComplianceGiven}
    \cup {[BaseOptions EXCEPT !.compliance = c,
                              !.warnings = Arr(<<Str("thin file")>>),
                              !.operator = Str("alice"),
                              !.sessionId = Str("S-1")] : c \in ComplianceGiven}

Decisions == {Str("approved"), Str("declined"), Str("referred"), Str("countered")}

\* declineReasons: left out, empty, given
ReasonsGiven == {Undefined, Arr(<<>>), Arr(<<Str("DTI too high"), Str("Thin file")>>)}

\* logDecision calls: every decision with every declineReasons, and every
\* compliance with a decline and an approval
AllDecisionCalls ==
    {[options |-> BaseOptions, decision |-> d, declineReasons |-> r] :
        d \in Decisions, r \in ReasonsGiven}
    \cup {[options |-> [BaseOptions EXCEPT !.compliance = c],
           decision |-> d,
           declineReasons |-> Arr(<<Str("DTI too high")>>)] :
             c \in ComplianceGiven, d \in {Str("approved"), Str("declined")}}

\* a logger constructed with any of the options, on an empty log
InitLog ==
    /\ file = <<>>
    /\ loggers \in {<<AuditLogger(o)>> : o \in LoggerOptions}
    /\ clock = 0
    /\ uuids = 0
    /\ ret = [op |-> "new", arg |-> Undefined, value |-> Undefined]
    /\ tamper = <<>>
    /\ calls = [p \in 1..MaxCallers |-> <<>>]

\* up to MaxCalls calls of log or logDecision, with any of the inputs
NextLog ==
    \/ \E options \in LogOptions, now \in SteadyClock :
          Len(file) < MaxCalls /\ log(1, options, now)
    \/ \E call \in AllDecisionCalls, now \in SteadyClock :
          Len(file) < MaxCalls /\ logDecision(1, call, now)

SpecLog == InitLog /\ [][NextLog]_vars

\* ------------------------------------------- computeEntryHash on its own
\* an object without its property k
DropKey(o, k) == Obj(SelectSeq(o[2], LAMBDA p : p[1] # k))

\* o with its property k set to v
WithKey(o, k, v) == Obj(SetPair(o[2], k, v))

\* the properties an entry may lack
OptionalKeys == {"sessionId", "parentAuditId", "loanId", "durationMs", "previousHash"}

\* values a property of an entry may have, those JSON.stringify does not
\* tell apart included
HashValues(key) ==
    EditValues(key, <<>>)
    \cup (CASE key = "outputs" ->
                 {Obj(<< <<"ratio", NaN>> >>), Obj(<< <<"ratio", Null>> >>)}
            [] key = "warnings" -> {Arr(<<Undefined>>), Arr(<<Null>>)}
            [] key = "inputs" -> {Obj(<< <<"note", Undefined>> >>)}
            [] key = "durationMs" -> {NaN, Null}
            [] OTHER -> {})

\* entries as log() builds them
HashBases ==
    {EntryObject(logEntry(AuditLogger(Undefined), o, <<>>, 1, 1)) :
        o \in {RiskOptions, BaseOptions}}

\* an entry, and the entry with one property changed or left out
HashVariants(o) ==
    {o}
    \cup UNION {{WithKey(o, EntryKeys[n], v) : v \in HashValues(EntryKeys[n])} :
                  n \in 1..Len(EntryKeys)}
    \cup {DropKey(o, k) : k \in OptionalKeys}

\* two entries to hash: an entry as built and a variant of it, or two
\* variants of one entry
HashPairs ==
    UNION {{<<a, b>> : a, b \in HashVariants(o)} : o \in HashBases}

\* the state before a call of computeEntryHash on each of two entries;
\* ret.arg holds the two
InitHash ==
    /\ file = <<>>
    /\ loggers = <<AuditLogger(Undefined)>>
    /\ clock = 0
    /\ uuids = 0
    /\ ret \in {[op |-> "new", arg |-> pair, value |-> Undefined] : pair \in HashPairs}
    /\ tamper = <<>>
    /\ calls = [p \in 1..MaxCallers |-> <<>>]

\* computeEntryHash applied to the two entries; reading a property the
\* object lacks gives undefined
ComputeEntryHash ==
    /\ ret.op = "new"
    /\ ret' = [op |-> "computeEntryHash", arg |-> ret.arg,
               value |-> <<computeEntryHash(EntryRecord(ret.arg[1])),
                           computeEntryHash(EntryRecord(ret.arg[2]))>>]
    /\ UNCHANGED <<file, loggers, clock, uuids, tamper, calls>>

NextHash == ComputeEntryHash

SpecHash == InitHash /\ [][NextHash]_vars

\* ------------------------------------------------ sanitizeInputs, alone
\* values of an input mapping: primitives, nested mappings and arrays
SanitizePrimitives == {Num(700), Str("123"), Null}

SanitizeMappings ==
    {Obj(<<>>)} \cup
    {Obj(<< <<k, v>> >>) : k \in {"name", "socialSecurity"}, v \in SanitizePrimitives}

SanitizeArrays ==
    {Arr(<<>>), Arr(<<Num(700), Num(720)>>),
     Arr(<< Obj(<< <<"SSN", Str("123")>> >>) >>)}

SanitizeValues == SanitizePrimitives \cup SanitizeMappings \cup SanitizeArrays

\* input mappings of one and of two keys, sensitive or not
SanitizeInputsGiven ==
    {Obj(<< <<k, v>> >>) : k \in {"borrower", "tokens"}, v \in SanitizeValues}
    \cup {Obj(<< <<"base", Num(85000)>>, <<k, v>> >>) :
             k \in {"scores", "apiKey"}, v \in SanitizeValues}

\* the state before a call of sanitizeInputs; ret.arg holds the input
InitSanitize ==
    /\ file = <<>>
    /\ loggers = <<AuditLogger(Undefined)>>
    /\ clock = 0
    /\ uuids = 0
    /\ ret \in {[op |-> "new", arg |-> inputs, value |-> Undefined] :
                   inputs \in SanitizeInputsGiven}
    /\ tamper = <<>>
    /\ calls = [p \in 1..MaxCallers |-> <<>>]

\* sanitizeInputs(inputs): the function only reads inputs, which is the same
\* object after the call
SanitizeInputs ==
    /\ ret.op = "new"
    /\ ret' = [op |-> "sanitizeInputs", arg |-> ret.arg, after |-> ret.arg,
               value |-> sanitizeInputs(ret.arg)]
    /\ UNCHANGED <<file, loggers, clock, uuids, tamper, calls>>

\* sanitizeInputs applied to the result of the call before
SanitizeAgain ==
    /\ ret.op = "sanitizeInputs"
    /\ ret' = [op |-> "sanitizeInputs twice", arg |-> ret.value, after |-> ret.value,
               value |-> sanitizeInputs(ret.value)]
    /\ UNCHANGED <<file, loggers, clock, uuids, tamper, calls>>

NextSanitize == SanitizeInputs \/ SanitizeAgain

SpecSanitize == InitSanitize /\ [][NextSanitize]_vars

\* ------------------------------------------- failed appends, damaged lines
\* What a failed appendFile leaves in the file: nothing (the file could not
\* be opened) or the beginning of the line (the write stopped part way, as
\* on a full disk).
appendFailed(f, entry, written) ==
    IF written = "nothing" THEN f
    ELSE appendText(f, Fragment(JSONstringify(EntryObject(entry))[2]))

\* log() whose storage.append rejects: log() has no catch, the rejection is
\* the outcome of log(); `before` is the file when log() was called
LogRejected(l, options, now, written) ==
    /\ uuids < MaxEntries
    /\ LET entry == logEntry(loggers[l], options, getLastEntry(file),
                             uuids + 1, now)
       IN /\ file' = appendFailed(file, entry, written)
          /\ ret' = [op |-> "log rejected", arg |-> Num(l), call |-> options,
                     value |-> Str("appendFile failed"), before |-> file]
    /\ clock' = now
    /\ uuids' = uuids + 1
    /\ UNCHANGED <<loggers, tamper, calls>>

\* a later log() call finds the file as the failed one left it
LogAfter(l, options, now) == uuids < MaxEntries /\ log(l, options, now)

\* Out-of-band damage, made once: a blank line or a line of other text put
\* after line k, or line k overwritten by other text.
InsertLine(k, line) ==
    /\ tamper = <<>>
    /\ k \in 0..Len(file)
    /\ ~(k = Len(file) /\ IsUnterminated(file))
    /\ file' = SubSeq(file, 1, k) \o <<line>> \o SubSeq(file, k + 1, Len(file))
    /\ tamper' = <<[k |-> k + 1, key |-> "line", len |-> Len(file)]>>
    /\ ret' = [op |-> "insert", arg |-> Num(k), value |-> Undefined]
    /\ UNCHANGED <<loggers, clock, uuids, calls>>

GarbleLine(k) ==
    /\ tamper = <<>>
    /\ k \in 1..Len(file)
    /\ IsJSON(file[k])
    /\ file' = [file EXCEPT ![k] = Text(file[k][2])]
    /\ tamper' = <<[k |-> k, key |-> "garbled", len |-> Len(file)]>>
    /\ ret' = [op |-> "garble", arg |-> Num(k), value |-> Undefined]
    /\ UNCHANGED <<loggers, clock, uuids, calls>>

\* Logging calls that succeed or fail, one damaged line, and every read.
NextLines ==
    \/ \E now \in SteadyClock : LogAfter(1, RiskOptions, now)
    \/ \E now \in SteadyClock, written \in {"nothing", "fragment"} :
          LogRejected(1, RiskOptions, now, written)
    \/ \E k \in 0..Len(file), line \in {Blank, Text(<<>>)} : InsertLine(k, line)
    \/ \E k \in 1..Len(file) : GarbleLine(k)
    \/ Query(NoFilter)
    \/ Count(<<>>)
    \/ \E n \in 1..MaxEntries : GetById(Uuid(n))
    \/ GetLastEntry
    \/ VerifyIntegrity(Undefined)

SpecLines == Init /\ [][NextLines]_vars

\* ------------------------------------------------------- removed lines
\* Out-of-band removal, made once: lines from..to are cut out of the file.
\* `was` is the number of lines before, `len` the number after.
Remove(from, to) ==
    /\ tamper = <<>>
    /\ 1 <= from /\ from <= to /\ to <= Len(file)
    /\ file' = SubSeq(file, 1, from - 1) \o SubSeq(file, to + 1, Len(file))
    /\ tamper' = <<[k |-> from, key |-> "removed", from |-> from, to |-> to,
                    was |-> Len(file), len |-> Len(file) - (to - from + 1)]>>
    /\ ret' = [op |-> "remove", arg |-> Num(from), value |-> Num(to)]
    /\ UNCHANGED <<loggers, clock, uuids, calls>>

\* Logging and verifying, with at most one removal in between.
NextRemove ==
    \/ \E now \in AnyClock : log(1, RiskOptions, now)
    \/ \E from, to \in 1..Len(file) : Remove(from, to)
    \/ VerifyIntegrity(Undefined)

SpecRemove == Init /\ [][NextRemove]_vars

\* ------------------------------------------------------ session loggers
\* a call that supplies its own sessionId
OwnSessionOptions == [BaseOptions EXCEPT !.sessionId = Str("S-2")]

\* Session loggers are started from any logger, with a sessionId given or
\* left out, and calls are made through every logger, one after the other.
NextSession ==
    \/ \E l \in 1..Len(loggers), sessionId \in {Undefined, Str("S-1")} :
          StartSession(l, sessionId)
    \/ \E l \in 1..Len(loggers), options \in {RiskOptions, OwnSessionOptions},
          now \in SteadyClock : log(l, options, now)
    \/ VerifyIntegrity(Undefined)

SpecSession == Init /\ [][NextSession]_vars

\* ================================================================ claims
Stored == readAllEntries(file)

IsLogOp(op) == op \in {"log", "logDecision"}

IsPrefix(xs, ys) == Len(xs) <= Len(ys) /\ SubSeq(ys, 1, Len(xs)) = xs

\* C1: after any sequence of sequential log()/logDecision() calls on an
\* initially empty storage, the first stored entry has no previousHash and
\* every later stored entry's previousHash is the entryHash of the entry
\* stored just before it.
C1_ChainLinkage ==
    \A k \in 1..Len(Stored) :
       IF k = 1 THEN Stored[k].previousHash = Undefined
       ELSE Stored[k].previousHash = Stored[k - 1].entryHash

\* three entries stored, the first by log(), the last by logDecision()
C1_Witness ==
    /\ Len(Stored) = 3
    /\ Get(Stored[1].outputs, "decision") = Undefined
    /\ ret.op = "logDecision"
    /\ Stored[3].previousHash = Stored[2].entryHash

\* C2: after N sequential log()/logDecision() calls and no out-of-band
\* change, verifyIntegrity() without fromDate returns valid = true,
\* entriesChecked = N, validEntries = N, invalidEntries = 0, no failures.
C2_ValidChainVerifies ==
    (ret.op = "verifyIntegrity" /\ ret.arg = Undefined) =>
       /\ ret.value.valid = TRUE
       /\ ret.value.entriesChecked = uuids
       /\ ret.value.validEntries = uuids
       /\ ret.value.invalidEntries = 0
       /\ Len(ret.value.failures) = 0

\* verifyIntegrity() has returned on a log of three entries, one of them
\* made by logDecision()
C2_Witness ==
    /\ ret.op = "verifyIntegrity"
    /\ ret.arg = Undefined
    /\ uuids = 3
    /\ ret.value.entriesChecked = 3
    /\ \E k \in 1..Len(Stored) :
          Get(Stored[k].outputs, "decision") = Str("declined")

\* C9: the log is append-only: across every operation the stored sequence
\* before is a prefix of the sequence after; log/logDecision extend it by
\* exactly one entry and every other operation leaves it unchanged.
C9_AppendOnly ==
    [][/\ IsPrefix(readAllEntries(file), readAllEntries(file'))
       /\ IsPrefix(file, file')
       /\ IsLogOp(ret'.op) => Len(readAllEntries(file')) = Len(readAllEntries(file)) + 1
       /\ ~IsLogOp(ret'.op) => file' = file]_vars

\* a read operation has returned on a full log written through two loggers
C9_Witness ==
    /\ Len(Stored) = 3
    /\ Len(loggers) = 2
    /\ ret.op \in {"query", "count", "getById", "getLastEntry"}
    /\ \E k \in 1..Len(Stored) : Stored[k].sessionId # Undefined

\* C10: every stored entry's entryHash is computeEntryHash of the entry's
\* other fields as stored, and the entry log() returns is the entry that
\* was appended: the last line of the file is its serialization.
C10_HashOfStoredFields ==
    /\ \A k \in 1..Len(Stored) : Stored[k].entryHash = computeEntryHash(Stored[k])
    /\ IsLogOp(ret.op) =>
          /\ file[Len(file)] = JSONstringify(EntryObject(ret.value))
          /\ ret.value.entryHash = computeEntryHash(ret.value)
          /\ \A n \in 1..Len(EntryKeys) :
                Stored[Len(Stored)][EntryKeys[n]] = ToJSON(ret.value[EntryKeys[n]])

\* log() has returned the third entry; its inputs were redacted and one of
\* its outputs is not a JSON value
C10_Witness ==
    /\ ret.op = "logDecision"
    /\ Len(Stored) = 3
    /\ Get(ret.value.inputs, "ssn") = Redacted
    /\ Get(ret.value.outputs, "ratio") = NaN
    /\ ret.value.previousHash = Stored[2].entryHash

\* ------------------------------------------------- claims on edited logs
\* the edit made, and the entry it was made to
EditedKey == tamper[1].key
EditedIndex == tamper[1].k

\* verifyIntegrity() with no fromDate has returned on a log that was edited
\* once and not written to since
VerifiedAfterEdit ==
    /\ ret.op = "verifyIntegrity"
    /\ ret.arg = Undefined
    /\ Len(tamper) = 1
    /\ Len(file) = tamper[1].len

\* failure f is the one reported for stored entry e, with reason r
Reports(f, e, r) ==
    f.auditId = e.auditId /\ f.timestamp = e.timestamp /\ f.reason = r

\* C3, as claimed: changing any one stored field other than entryHash of
\* entry k of a valid chain gives exactly one failure, for entry k, with
\* reason 'Entry hash mismatch - possible tampering', and every other
\* entry is counted valid.
C3_AsClaimed ==
    (VerifiedAfterEdit /\ EditedKey # "entryHash") =>
       /\ Len(ret.value.failures) = 1
       /\ Reports(ret.value.failures[1], Stored[EditedIndex], EntryHashMismatch)
       /\ ret.value.validEntries = Len(Stored) - 1

\* C3, amended: changing any one stored field other than entryHash of
\* entry k of a valid chain gives exactly one failure, for entry k, and
\* every other entry is counted valid; the reason is 'Entry hash mismatch -
\* possible tampering', except that it is 'Previous hash mismatch' when the
\* field changed is previousHash and k >= 2.
C3_OneFailureForEditedEntry ==
    (VerifiedAfterEdit /\ EditedKey # "entryHash") =>
       /\ Len(ret.value.failures) = 1
       /\ Reports(ret.value.failures[1], Stored[EditedIndex],
                  IF EditedKey = "previousHash" /\ EditedIndex >= 2
                  THEN PreviousHashMismatch ELSE EntryHashMismatch)
       /\ ret.value.validEntries = Len(Stored) - 1

\* the rationale of the second of three entries was changed and
\* verifyIntegrity() reported that entry alone
C3_Witness ==
    /\ VerifiedAfterEdit
    /\ EditedKey = "rationale"
    /\ EditedIndex = 2
    /\ Len(Stored) = 3
    /\ ret.value.validEntries = 2
    /\ Len(ret.value.failures) = 1

\* C4: changing only the stored entryHash of entry k of a valid N-entry
\* chain makes verifyIntegrity() report entry k with 'Entry hash mismatch -
\* possible tampering' and, when k < N, entry k+1 with 'Previous hash
\* mismatch', and no other entry.
C4_StoredHashEdited ==
    (VerifiedAfterEdit /\ EditedKey = "entryHash") =>
       LET k == EditedIndex
           N == Len(Stored)
           failures == ret.value.failures
       IN /\ Len(failures) = (IF k < N THEN 2 ELSE 1)
          /\ Reports(failures[1], Stored[k], EntryHashMismatch)
          /\ k < N => Reports(failures[2], Stored[k + 1], PreviousHashMismatch)
          /\ ret.value.validEntries = N - Len(failures)

\* the stored entryHash of the first of three entries was changed; entries
\* one and two are reported, entry three is valid
C4_Witness ==
    /\ VerifiedAfterEdit
    /\ EditedKey = "entryHash"
    /\ EditedIndex = 1
    /\ Len(Stored) = 3
    /\ Len(ret.value.failures) = 2
    /\ ret.value.validEntries = 1

\* C5: after any change of any one stored field of any entry of a valid
\* chain (entryHash and previousHash included), verifyIntegrity() with no
\* fromDate returns valid = false and a failure that names a stored entry,
\* also when entries have been logged since.
C5_EditDetected ==
    (ret.op = "verifyIntegrity" /\ ret.arg = Undefined /\ Len(tamper) = 1) =>
       /\ ret.value.valid = FALSE
       /\ Len(ret.value.failures) >= 1
       /\ \A n \in 1..Len(ret.value.failures) :
             \E k \in 1..Len(Stored) :
                ret.value.failures[n].auditId = Stored[k].auditId

\* the durationMs of the last entry was removed and the change was found
C5_Witness ==
    /\ VerifiedAfterEdit
    /\ EditedKey = "durationMs"
    /\ EditedIndex = Len(Stored)
    /\ Stored[EditedIndex].durationMs = Undefined
    /\ ret.value.valid = FALSE

\* an entry is in the range of fromDate: its time is at or after it
InRange(e, fromDate) ==
    fromDate = Undefined \/ e.timestamp[2] >= fromDate[2]

\* C6: for every log content and every fromDate the result of
\* verifyIntegrity has validEntries + invalidEntries = entriesChecked,
\* invalidEntries = the number of failures, valid = (no failures), and
\* entriesChecked = the number of stored entries at or after fromDate.
C6_ResultCounts ==
    ret.op = "verifyIntegrity" =>
       /\ ret.value.validEntries + ret.value.invalidEntries = ret.value.entriesChecked
       /\ ret.value.invalidEntries = Len(ret.value.failures)
       /\ ret.value.valid = (Len(ret.value.failures) = 0)
       /\ ret.value.entriesChecked =
             Cardinality({k \in 1..Len(Stored) : InRange(Stored[k], ret.arg)})

\* an edited log verified from a date that leaves the first entry out:
\* one entry valid, one not
C6_Witness ==
    /\ ret.op = "verifyIntegrity"
    /\ ret.arg = IsoDate(2)
    /\ Len(tamper) = 1
    /\ Len(Stored) = 3
    /\ ret.value.entriesChecked = 2
    /\ ret.value.validEntries = 1
    /\ ret.value.invalidEntries = 1

\* the positions of the stored entries that are in the range of fromDate
\* and whose previousHash differs from the entryHash of the entry stored
\* just before them
BrokenLinks(fromDate) ==
    SelectSeq([k \in 1..Len(Stored) |-> k],
              LAMBDA k : /\ k > 1
                         /\ InRange(Stored[k], fromDate)
                         /\ Stored[k].previousHash # Stored[k - 1].entryHash)

LinkFailures(failures) ==
    SelectSeq(failures, LAMBDA f : f.reason = PreviousHashMismatch)

\* C7: with a fromDate, the previous-hash check of each reported entry is
\* made against the entry stored just before it in the full sequence, also
\* when that entry is before fromDate: the 'Previous hash mismatch'
\* failures are exactly those of the entries in range whose previousHash
\* differs from their stored predecessor's entryHash, which is the
\* expected hash reported.
C7_PredecessorInFullSequence ==
    (ret.op = "verifyIntegrity" /\ ret.arg # Undefined) =>
       LET broken == BrokenLinks(ret.arg)
           reported == LinkFailures(ret.value.failures)
       IN /\ Len(reported) = Len(broken)
          /\ \A n \in 1..Len(broken) :
                /\ reported[n].auditId = Stored[broken[n]].auditId
                /\ reported[n].expectedHash = Stored[broken[n] - 1].entryHash
                /\ reported[n].actualHash = Stored[broken[n]].previousHash

\* verified from a date after the first entry, whose stored entryHash was
\* changed: the second entry is reported against the first, which is not
\* reported on
C7_Witness ==
    /\ ret.op = "verifyIntegrity"
    /\ ret.arg = IsoDate(2)
    /\ Len(tamper) = 1
    /\ Len(Stored) >= 2
    /\ EditedKey = "entryHash"
    /\ EditedIndex = 1
    /\ Stored[1].timestamp = IsoDate(1)
    /\ Stored[2].timestamp = IsoDate(2)
    /\ Len(ret.value.failures) = 1
    /\ Reports(ret.value.failures[1], Stored[2], PreviousHashMismatch)
    /\ ret.value.failures[1].expectedHash = Stored[1].entryHash

LinkAt(r) == IF r = 0 THEN Undefined ELSE Stored[r].entryHash

\* C11: two log() calls whose read-last and append steps overlap carry the
\* same previousHash, that of the last entry both read; a call appends its
\* entry with the link it read, so when another entry was appended between
\* its read and its append the stored previousHash differs from the
\* entryHash of the entry stored just before: chain linkage is violated.
C11_OverlapForksChain ==
    /\ \A p \in InFlight : calls[p][1].entry.previousHash = LinkAt(calls[p][1].read)
    /\ \A p, q \in InFlight :
          calls[p][1].read = calls[q][1].read =>
             calls[p][1].entry.previousHash = calls[q][1].entry.previousHash
    /\ ret.op = "log" =>
          LET N == Len(Stored)
          IN /\ Stored[N].entryHash = ret.value.entryHash
             /\ Stored[N].previousHash = LinkAt(ret.read)
             /\ ret.read < N - 1 => Stored[N].previousHash # Stored[N - 1].entryHash

\* two calls both read the empty log; both entries are stored without a
\* previousHash, and the second is not linked to the first
C11_Witness ==
    /\ ret.op = "log"
    /\ Len(Stored) = 2
    /\ ret.read = 0
    /\ Stored[1].previousHash = Undefined
    /\ Stored[2].previousHash = Undefined
    /\ Stored[2].previousHash # Stored[1].entryHash

\* ---------------------------------------------------- claims on queries
\* entry e satisfies every filter given in options
Matches(options, e) ==
    /\ options.loanId # Undefined => e.loanId = options.loanId
    /\ options.tool # Undefined => e.tool = options.tool
    /\ options.command # Undefined => e.command = options.command
    /\ options.operator # Undefined => e.operator = options.operator
    /\ options.sessionId # Undefined => e.sessionId = options.sessionId
    /\ options.startDate # Undefined => options.startDate[2] <= e.timestamp[2]
    /\ options.endDate # Undefined => e.timestamp[2] <= options.endDate[2]
    /\ options.hasRiskFlags = Bool(TRUE) =>
          Len(Get(e.compliance, "riskFlags")[2]) > 0
    /\ options.humanReviewRequired # Undefined =>
          Get(e.compliance, "humanReviewRequired") = options.humanReviewRequired

Matching(options) == SelectSeq(Stored, LAMBDA e : Matches(options, e))

\* hasRiskFlags is left out or true
RiskFilterPlain(options) == options.hasRiskFlags \in {Undefined, Bool(TRUE)}

\* C12: query(filters) with no limit and no offset returns exactly the
\* stored entries that satisfy every filter given (loanId, tool, command,
\* operator, sessionId, startDate <= timestamp <= endDate, hasRiskFlags =
\* true, humanReviewRequired), in storage order; an empty list on an empty
\* log or when nothing matches.
C12_QueryReturnsMatches ==
    (/\ ret.op = "query"
     /\ ret.arg.limit = Undefined
     /\ ret.arg.offset = Undefined
     /\ RiskFilterPlain(ret.arg)) =>
       ret.value = Matching(ret.arg)

\* a query for tool finctl on a log of three entries, the first of another
\* tool: the second and third are returned, in that order
C12_Witness ==
    /\ ret.op = "query"
    /\ ret.arg = [NoFilter EXCEPT !.tool = Str("finctl")]
    /\ Len(Stored) = 3
    /\ Stored[1].tool = Str("decctl")
    /\ ret.value = <<Stored[2], Stored[3]>>

\* positions from..to of xs (counted from 0), as far as xs goes
Positions(xs, from, to) ==
    SubSeq(xs, from + 1, IF to + 1 > Len(xs) THEN Len(xs) ELSE to + 1)

\* the offset given, 0 when left out
OffsetOf(options) ==
    IF options.offset = Undefined THEN 0 ELSE options.offset[2]

\* C13, as claimed: pagination is applied after filtering: for every
\* offset O >= 0 and every limit L >= 0 query returns exactly the matching
\* entries at positions O .. O+L-1 of the filtered sequence, never more
\* than L entries; with no limit it returns every matching entry from
\* position O on.
C13_AsClaimed ==
    (ret.op = "query" /\ RiskFilterPlain(ret.arg)) =>
       LET matching == Matching(ret.arg)
           O == OffsetOf(ret.arg)
       IN IF ret.arg.limit = Undefined
          THEN ret.value = Positions(matching, O, Len(matching) - 1)
          ELSE /\ ret.value = Positions(matching, O, O + ret.arg.limit[2] - 1)
               /\ Len(ret.value) <= ret.arg.limit[2]

\* a query with limit 0 on a log with two finctl entries returned both
C13_Witness ==
    /\ ret.op = "query"
    /\ ret.arg = [NoFilter EXCEPT !.tool = Str("finctl"),
                                  !.limit = Num(0), !.offset = Num(0)]
    /\ Len(Matching(ret.arg)) = 2
    /\ Len(ret.value) = 2

\* C14, as claimed: count(options) returns the number of stored entries
\* that satisfy all the filters of options, whatever limit or offset the
\* options carry; count() with no options returns the number of stored
\* entries.
C14_AsClaimed ==
    (ret.op = "count" /\ (Len(ret.arg) > 0 => RiskFilterPlain(ret.arg[1]))) =>
       ret.value = (IF Len(ret.arg) = 0 THEN Len(Stored)
                    ELSE Len(Matching(ret.arg[1])))

\* count with a limit of 1 on a log with two finctl entries returned 1
C14_Witness ==
    /\ ret.op = "count"
    /\ ret.arg = <<[NoFilter EXCEPT !.tool = Str("finctl"), !.limit = Num(1)]>>
    /\ Len(Matching(ret.arg[1])) = 2
    /\ ret.value = 1

\* ------------------------------------------------ claims on the lookups
\* entry e as a reader gets it back: written as a line and parsed
AsStored(e) == EntryRecord(JSONparse(JSONstringify(EntryObject(e))))

\* C15: getLastEntry() returns the entry of the most recent append - the
\* last stored entry, which right after a log() call is the entry that
\* call appended and returned, as serialised - and null on an empty log.
C15_LastEntryReturned ==
    /\ ret.op = "getLastEntry" =>
          ret.value = (IF Len(file) = 0 THEN <<>> ELSE <<Stored[Len(Stored)]>>)
    /\ IsLogOp(ret.op) =>
          /\ getLastEntry(file) = <<AsStored(ret.value)>>
          /\ getLastEntry(file)[1].auditId = ret.value.auditId
          /\ getLastEntry(file)[1].entryHash = ret.value.entryHash

\* getLastEntry() on a log of three entries returned the third
C15_Witness ==
    /\ ret.op = "getLastEntry"
    /\ Len(Stored) = 3
    /\ ret.value = <<Stored[3]>>
    /\ ret.value[1].auditId = Uuid(3)
    /\ ret.value[1].previousHash = Stored[2].entryHash

\* the positions of the stored entries with identifier auditId
StoredAt(auditId) == {k \in 1..Len(Stored) : Stored[k].auditId = auditId}

\* C16: after log() returns entry e, getById(e.auditId) returns the stored
\* entry equal to e as serialised; getById returns the stored entry that
\* has the identifier asked for, and null for an identifier that was never
\* appended.
C16_GetByIdReturned ==
    /\ ret.op = "getById" =>
          /\ StoredAt(ret.arg) = {} => ret.value = <<>>
          /\ \A k \in StoredAt(ret.arg) : ret.value = <<Stored[k]>>
    /\ IsLogOp(ret.op) =>
          /\ getById(file, ret.value.auditId) = <<AsStored(ret.value)>>
          /\ getById(file, ret.value.auditId)[1].entryHash = ret.value.entryHash

\* getById of the first of three entries returned it
C16_Witness ==
    /\ ret.op = "getById"
    /\ ret.arg = Uuid(1)
    /\ Len(Stored) = 3
    /\ ret.value = <<Stored[1]>>
    /\ ret.value[1].auditId = Uuid(1)
    /\ getById(file, Uuid(3)) = <<Stored[3]>>

\* ------------------------------------------- claims on what log() fills in
\* the entry the last call returned, its stored record, and parts of both
Regulations(e) == Get(e.compliance, "regulations")
HumanReview(e) == Get(e.compliance, "humanReviewRequired")
Decision(e) == Get(e.outputs, "decision")
AdverseActionReasons(e) == Get(e.outputs, "adverseActionReasons")
LastStored == Stored[Len(Stored)]

Contains(array, v) == \E i \in 1..Len(array[2]) : array[2][i] = v

Declined == ret.op = "logDecision" /\ ret.call.decision = Str("declined")

\* C17: logDecision with decision = 'declined' yields an entry whose
\* compliance.regulations contains 'ECOA' and 'Reg B', whose
\* compliance.humanReviewRequired is true even when the caller passed
\* false, whose outputs.decision is 'declined' and whose
\* outputs.adverseActionReasons equals the declineReasons the caller gave;
\* the stored entry has the same.
C17_DeclinedDecision ==
    Declined =>
       \A e \in {ret.value, LastStored} :
          /\ Contains(Regulations(e), Str("ECOA"))
          /\ Contains(Regulations(e), Str("Reg B"))
          /\ HumanReview(e) = Bool(TRUE)
          /\ Decision(e) = Str("declined")
          /\ ret.call.declineReasons # Undefined =>
                AdverseActionReasons(e) = ret.call.declineReasons

\* a decline whose caller passed humanReviewRequired = false
C17_Witness ==
    /\ Declined
    /\ Get(ret.call.options.compliance, "humanReviewRequired") = Bool(FALSE)
    /\ HumanReview(LastStored) = Bool(TRUE)
    /\ AdverseActionReasons(LastStored) = Arr(<<Str("DTI too high")>>)

\* C18, as claimed: for every logDecision call with decision = 'declined',
\* whatever the caller gave as declineReasons (nothing, an empty list, a
\* non-empty list), the stored entry's outputs.adverseActionReasons is a
\* non-empty list; it is ['Unspecified reason'] when the caller gave none.
C18_AsClaimed ==
    Declined =>
       /\ TypeTag(AdverseActionReasons(LastStored)) = "array"
       /\ Len(AdverseActionReasons(LastStored)[2]) > 0
       /\ ret.call.declineReasons = Undefined =>
             AdverseActionReasons(LastStored) = Arr(<<Str("Unspecified reason")>>)

\* a decline with an empty list of reasons is stored with no reason
C18_Witness ==
    /\ Declined
    /\ ret.call.declineReasons = Arr(<<>>)
    /\ AdverseActionReasons(LastStored) = Arr(<<>>)

\* the regulations the caller gave, none when left out
GivenRegulations(options) ==
    IF Get(options.compliance, "regulations") = Undefined THEN <<>>
    ELSE Get(options.compliance, "regulations")[2]

\* C19: for every decision value logDecision yields an entry whose
\* compliance.regulations is the caller's regulations in their order
\* followed by 'ECOA' and 'Reg B', and whose outputs.decision is the
\* decision passed; the stored entry has the same.
C19_DecisionRegulations ==
    ret.op = "logDecision" =>
       \A e \in {ret.value, LastStored} :
          /\ Regulations(e) =
                Arr(GivenRegulations(ret.call.options) \o <<Str("ECOA"), Str("Reg B")>>)
          /\ Decision(e) = ret.call.decision

\* an approval whose caller gave HMDA, TRID
C19_Witness ==
    /\ ret.op = "logDecision"
    /\ ret.call.decision = Str("approved")
    /\ Regulations(LastStored) = Arr(<<HMDA, TRID, Str("ECOA"), Str("Reg B")>>)
    /\ Decision(LastStored) = Str("approved")

\* the value log() is to fill in: the caller's when given, else the default
Filled(given, default) == IF given = Undefined THEN default ELSE given

SameFields(a, b) ==
    \A n \in 1..Len(HashedKeys) : Get(a, HashedKeys[n]) = Get(b, HashedKeys[n])

\* ... equal values as JSON.stringify writes them
SameSerialised(a, b) ==
    \A n \in 1..Len(HashedKeys) :
       ToJSON(Get(a, HashedKeys[n])) = ToJSON(Get(b, HashedKeys[n]))

\* C21, as claimed: computeEntryHash depends only on the sixteen enumerated
\* fields: two entries with equal values for them hash equally (whether an
\* optional field is omitted or undefined, whatever entryHash is), and two
\* entries that differ in the value of an enumerated field have different
\* canonical forms.
C21_AsClaimed ==
    ret.op = "computeEntryHash" =>
       /\ SameFields(ret.arg[1], ret.arg[2]) => ret.value[1] = ret.value[2]
       /\ ~SameFields(ret.arg[1], ret.arg[2]) => ret.value[1] # ret.value[2]

\* C21, amended: computeEntryHash depends only on the sixteen enumerated
\* fields: two entries with equal values for them hash equally (whether an
\* optional field is omitted or undefined, whatever entryHash is), and two
\* entries have different canonical forms exactly when the value of an
\* enumerated field differs as JSON.stringify writes it: values it writes
\* alike (NaN and null, an undefined and a null array element, an object
\* with and without a property that is undefined) give the same hash.
C21_HashOfSixteenFields ==
    ret.op = "computeEntryHash" =>
       /\ SameFields(ret.arg[1], ret.arg[2]) => ret.value[1] = ret.value[2]
       /\ SameSerialised(ret.arg[1], ret.arg[2]) <=> ret.value[1] = ret.value[2]

\* an entry without sessionId and the entry with sessionId undefined and
\* another entryHash hash equally
C21_Witness ==
    /\ ret.op = "computeEntryHash"
    /\ KeyIndex(ret.arg[1][2], "sessionId") = 0
    /\ KeyIndex(ret.arg[2][2], "sessionId") > 0
    /\ Get(ret.arg[2], "sessionId") = Undefined
    /\ ret.value[1] = ret.value[2]

\* ------------------------------------------- claims on sanitized inputs
\* every key of v, at any depth, whose name contains a sensitive keyword has
\* the value '[REDACTED]'
RECURSIVE EveryKeyRedacted(_)
EveryKeyRedacted(v) ==
    CASE TypeTag(v) = "object" ->
           \A i \in 1..Len(v[2]) :
              IF IsSensitiveKey(v[2][i][1]) THEN v[2][i][2] = Redacted
              ELSE EveryKeyRedacted(v[2][i][2])
      [] TypeTag(v) = "array" ->
           \A i \in 1..Len(v[2]) : EveryKeyRedacted(v[2][i])
      [] OTHER -> TRUE

\* the inputs the caller of the last log()/logDecision() gave
RawInputs == IF ret.op = "log" THEN ret.call.inputs ELSE ret.call.options.inputs

\* C22: in every entry stored by log()/logDecision(), every key of inputs,
\* at any nesting depth, whose name contains a sensitive keyword has the
\* value '[REDACTED]'; the entryHash is computed over these sanitized
\* inputs: the stored entry's hash is the hash of the entry as stored, and
\* it is not the hash of the entry with the raw inputs when those differ.
C22_SanitizedStoredAndHashed ==
    /\ \A k \in 1..Len(Stored) :
          /\ EveryKeyRedacted(Stored[k].inputs)
          /\ Stored[k].entryHash = computeEntryHash(Stored[k])
    /\ IsLogOp(ret.op) =>
          /\ EveryKeyRedacted(ret.value.inputs)
          /\ ret.value.entryHash = computeEntryHash(ret.value)
          /\ ~EveryKeyRedacted(RawInputs) =>
                ret.value.entryHash #
                   computeEntryHash([ret.value EXCEPT !.inputs = RawInputs])

\* log() was given a social security number one level down; it is stored
\* redacted in an entry that verifies
C22_Witness ==
    /\ ret.op = "log"
    /\ Get(Get(RawInputs, "borrower"), "socialSecurity") = Str("123")
    /\ Get(Get(LastStored.inputs, "borrower"), "socialSecurity") = Redacted
    /\ Get(Get(LastStored.inputs, "borrower"), "name") = Str("John")
    /\ LastStored.entryHash = computeEntryHash(LastStored)

\* the keys of a mapping, in order
KeysOf(v) == [i \in 1..Len(v[2]) |-> v[2][i][1]]

\* out has the keys of the mapping in at every level, and every key that is
\* not sensitive and whose value is not a mapping has the value it had
RECURSIVE OnlySensitiveChanged(_, _)
OnlySensitiveChanged(in, out) ==
    /\ TypeTag(out) = "object"
    /\ KeysOf(out) = KeysOf(in)
    /\ \A i \in 1..Len(in[2]) :
          IF IsSensitiveKey(in[2][i][1]) THEN TRUE
          ELSE IF TypeTag(in[2][i][2]) = "object"
               THEN OnlySensitiveChanged(in[2][i][2], out[2][i][2])
               ELSE out[2][i][2] = in[2][i][2]

\* an array is the value of a key of v that is not sensitive, at some depth
RECURSIVE HoldsArray(_)
HoldsArray(v) ==
    /\ TypeTag(v) = "object"
    /\ \E i \in 1..Len(v[2]) :
          /\ ~IsSensitiveKey(v[2][i][1])
          /\ \/ TypeTag(v[2][i][2]) = "array"
             \/ HoldsArray(v[2][i][2])

\* C23: sanitizeInputs changes only the values of sensitive keys: the output
\* has the same key set at every level, every key that is not sensitive and
\* whose value is not a mapping keeps its value (arrays included), the
\* input object is not modified, and sanitizeInputs applied twice gives the
\* same result as applied once.
C23_AsClaimed ==
    /\ ret.op = "sanitizeInputs" =>
          /\ OnlySensitiveChanged(ret.arg, ret.value)
          /\ ret.after = ret.arg
    /\ ret.op = "sanitizeInputs twice" => ret.value = ret.arg

\* what holds of C23: the claim for every input that holds no array under a
\* key that is not sensitive, the input left alone, and the second
\* application changing nothing
C23_ExceptArrays ==
    /\ ret.op = "sanitizeInputs" =>
          /\ ~HoldsArray(ret.arg) => OnlySensitiveChanged(ret.arg, ret.value)
          /\ ret.after = ret.arg
    /\ ret.op = "sanitizeInputs twice" => ret.value = ret.arg

\* an array of two scores under a key that is not sensitive comes back as a
\* mapping from "0" and "1"
C23_Witness ==
    /\ ret.op = "sanitizeInputs"
    /\ Get(ret.arg, "scores") = Arr(<<Num(700), Num(720)>>)
    /\ Get(ret.value, "scores") = Obj(<< <<"0", Num(700)>>, <<"1", Num(720)>> >>)

\* ---------------------------------- claims on failed appends and bad lines
\* C24: if the storage append fails inside log(), the failure is propagated
\* to the caller of log(), no retry is made, and the stored entry sequence is
\* the same as before the call: no entry and no partial line is added.
C24_AsClaimed ==
    ret.op = "log rejected" =>
       /\ ret.value = Str("appendFile failed")
       /\ readAllEntries(file) = readAllEntries(ret.before)
       /\ file = ret.before

\* what holds of C24: the failure is the outcome of log() and the entries
\* read from the file are those read before the call
C24_NoEntryAdded ==
    ret.op = "log rejected" =>
       /\ ret.value = Str("appendFile failed")
       /\ readAllEntries(file) = readAllEntries(ret.before)

\* a failed log() on a log of one entry has left the beginning of a line
C24_Witness ==
    /\ ret.op = "log rejected"
    /\ Len(ret.before) = 1
    /\ Len(file) = 2
    /\ IsUnterminated(file)
    /\ Len(Stored) = 1

\* the file without its blank lines and without the lines that do not parse
WithoutBadLines(f) == SelectSeq(f, LAMBDA line : line[1] = "json")

HasBadLine(f) == \E i \in 1..Len(f) : f[i][1] \in {"text", "fragment"}
HasBlankLine(f) == \E i \in 1..Len(f) : f[i] = Blank

\* C25: a stored line that is not valid JSON is skipped by every read:
\* query, count, getById, getLastEntry and verifyIntegrity complete and
\* return what they return on the file without that line, and every other
\* entry of the file is read, in file order; blank lines are ignored the
\* same way.
C25_BadLinesSkipped ==
    /\ Stored = [i \in 1..Len(WithoutBadLines(file)) |->
                   EntryRecord(WithoutBadLines(file)[i][2])]
    /\ ret.op = "query" => ret.value = query(WithoutBadLines(file), ret.arg)
    /\ ret.op = "count" => ret.value = count(WithoutBadLines(file), ret.arg)
    /\ ret.op = "getById" => ret.value = getById(WithoutBadLines(file), ret.arg)
    /\ ret.op = "getLastEntry" => ret.value = getLastEntry(WithoutBadLines(file))
    /\ ret.op = "verifyIntegrity" =>
          ret.value = verifyIntegrity(WithoutBadLines(file), ret.arg)

\* a query returns the two entries around a line that does not parse
C25_Witness ==
    /\ ret.op = "query"
    /\ Len(file) = 3
    /\ file[2][1] = "text"
    /\ Len(ret.value) = 2
    /\ ret.value[1].auditId = Uuid(1)
    /\ ret.value[2].auditId # Uuid(1)

\* ------------------------------------------- claims on reported failures
\* the failures reported for the stored entry e
FailuresFor(failures, e) ==
    SelectSeq(failures, LAMBDA f : f.auditId = e.auditId)

\* C26: an entry that is not first in the full stored sequence and whose
\* previousHash differs from its predecessor's entryHash yields exactly one
\* failure, with reason 'Previous hash mismatch', expectedHash = the
\* predecessor's stored entryHash and actualHash = the entry's own stored
\* previousHash; its own content hash is not checked, so an entry with both
\* faults is reported once, and it is not counted in validEntries.
C26_BrokenLinkReportedOnce ==
    ret.op = "verifyIntegrity" =>
       /\ \A k \in 2..Len(Stored) :
             (/\ InRange(Stored[k], ret.arg)
              /\ Stored[k].previousHash # Stored[k - 1].entryHash) =>
                FailuresFor(ret.value.failures, Stored[k]) =
                   <<[auditId |-> Stored[k].auditId,
                      timestamp |-> Stored[k].timestamp,
                      reason |-> PreviousHashMismatch,
                      expectedHash |-> Stored[k - 1].entryHash,
                      actualHash |-> Stored[k].previousHash]>>
       /\ ret.value.validEntries =
             Cardinality({k \in 1..Len(Stored) :
                            /\ InRange(Stored[k], ret.arg)
                            /\ FailuresFor(ret.value.failures, Stored[k]) = <<>>})

\* the previousHash of the second of three entries was changed: its link is
\* broken and its content hash is wrong, and it is reported once
C26_Witness ==
    /\ VerifiedAfterEdit
    /\ EditedKey = "previousHash"
    /\ EditedIndex = 2
    /\ Len(Stored) = 3
    /\ Stored[2].previousHash # Stored[1].entryHash
    /\ computeEntryHash(Stored[2]) # Stored[2].entryHash
    /\ Len(ret.value.failures) = 1
    /\ ret.value.failures[1].reason = PreviousHashMismatch
    /\ ret.value.validEntries = 2

\* C27: an 'Entry hash mismatch - possible tampering' failure carries
\* expectedHash = the hash recomputed from the entry's stored content and
\* actualHash = the entryHash stored in the entry.
C27_AsClaimed ==
    ret.op = "verifyIntegrity" =>
       \A n \in 1..Len(ret.value.failures) :
          ret.value.failures[n].reason = EntryHashMismatch =>
             \A k \in 1..Len(Stored) :
                Stored[k].auditId = ret.value.failures[n].auditId =>
                   /\ ret.value.failures[n].expectedHash = computeEntryHash(Stored[k])
                   /\ ret.value.failures[n].actualHash = Stored[k].entryHash

\* what the code reports for C27: the two the other way round
C27_StoredAsExpected ==
    ret.op = "verifyIntegrity" =>
       \A n \in 1..Len(ret.value.failures) :
          ret.value.failures[n].reason = EntryHashMismatch =>
             \A k \in 1..Len(Stored) :
                Stored[k].auditId = ret.value.failures[n].auditId =>
                   /\ ret.value.failures[n].expectedHash = Stored[k].entryHash
                   /\ ret.value.failures[n].actualHash = computeEntryHash(Stored[k])

\* the rationale of the only entry was changed: the failure reported has the
\* stored entryHash as expectedHash and the recomputed hash as actualHash
C27_Witness ==
    /\ VerifiedAfterEdit
    /\ EditedKey = "rationale"
    /\ Len(Stored) = 1
    /\ Len(ret.value.failures) = 1
    /\ ret.value.failures[1].reason = EntryHashMismatch
    /\ ret.value.failures[1].expectedHash = Stored[1].entryHash
    /\ ret.value.failures[1].actualHash = computeEntryHash(Stored[1])
    /\ Stored[1].entryHash # computeEntryHash(Stored[1])

\* ------------------------------------------- claims on decision entries
\* no value occurs twice in the array
NoDuplicates(array) ==
    \A i, j \in 1..Len(array[2]) : array[2][i] = array[2][j] => i = j

\* C28: compliance.regulations of every entry produced by logDecision is a
\* set: no regulation code occurs in it more than once, also when the
\* caller's compliance.regulations already contains 'ECOA' or 'Reg B'.
C28_AsClaimed ==
    ret.op = "logDecision" =>
       /\ NoDuplicates(Regulations(ret.value))
       /\ NoDuplicates(Regulations(LastStored))

\* what holds of C28: no code occurs twice when the caller gave neither
\* 'ECOA' nor 'Reg B'
C28_UnlessGiven ==
    (/\ ret.op = "logDecision"
     /\ \A n \in 1..Len(GivenRegulations(ret.call.options)) :
           GivenRegulations(ret.call.options)[n] \notin {Str("ECOA"), Str("Reg B")}) =>
       /\ NoDuplicates(Regulations(ret.value))
       /\ NoDuplicates(Regulations(LastStored))

\* the caller gave ECOA, TRID: the entry stored has ECOA twice
C28_Witness ==
    /\ ret.op = "logDecision"
    /\ GivenRegulations(ret.call.options) = <<Str("ECOA"), TRID>>
    /\ Regulations(LastStored) = Arr(<<Str("ECOA"), TRID, Str("ECOA"), Str("Reg B")>>)

\* ---------------------------------------------------- claims on forks
\* stored entries k - 1 and k carry the same previousHash
ForkAt(k) == k >= 2 /\ Stored[k].previousHash = Stored[k - 1].previousHash

\* every entry but the first and entry k is linked to the entry before it
LinkedButAt(k) ==
    \A j \in 2..Len(Stored) :
       j # k => Stored[j].previousHash = Stored[j - 1].entryHash

\* C29: a fork made by two overlapping log() calls is not silent to the
\* verifier: where two consecutive stored entries carry the same
\* previousHash, verifyIntegrity() returns valid = false with a 'Previous
\* hash mismatch' on the later-stored of the two, the only failure when
\* every other call was sequential; a log() made sequentially afterwards
\* links to the last stored entry and is counted valid; and a log that
\* fails verification fails it, with the same failures first, ever after.
C29_ForkDetected ==
    /\ [](/\ ret.op = "verifyIntegrity" =>
                \A k \in 2..Len(Stored) :
                   ForkAt(k) =>
                      /\ ret.value.valid = FALSE
                      /\ FailuresFor(ret.value.failures, Stored[k]) =
                            <<[auditId |-> Stored[k].auditId,
                               timestamp |-> Stored[k].timestamp,
                               reason |-> PreviousHashMismatch,
                               expectedHash |-> Stored[k - 1].entryHash,
                               actualHash |-> Stored[k].previousHash]>>
                      /\ LinkedButAt(k) =>
                            /\ Len(ret.value.failures) = 1
                            /\ ret.value.validEntries = Len(Stored) - 1
          /\ (ret.op = "log" /\ Len(Stored) >= 2 /\ ret.read = Len(Stored) - 1) =>
                /\ LastStored.previousHash = Stored[Len(Stored) - 1].entryHash
                /\ FailuresFor(verifyIntegrity(file, Undefined).failures,
                               LastStored) = <<>>)
    /\ [][IsPrefix(verifyIntegrity(file, Undefined).failures,
                   verifyIntegrity(file', Undefined).failures)]_vars

\* two calls read the empty log and both appended; a third call made
\* afterwards is linked to the second entry; the second entry alone is
\* reported
C29_Witness ==
    /\ ret.op = "verifyIntegrity"
    /\ Len(Stored) = 3
    /\ Stored[1].previousHash = Undefined
    /\ ForkAt(2)
    /\ Stored[3].previousHash = Stored[2].entryHash
    /\ ret.value.valid = FALSE
    /\ Len(ret.value.failures) = 1
    /\ ret.value.failures[1].auditId = Stored[2].auditId
    /\ ret.value.validEntries = 2

\* --------------------------------------------- claims on removed entries
\* C30: removal of entries is detected only in the middle of the log:
\* deleting any number of entries from the end of a valid N-entry chain, or
\* any number from its beginning (so that the new first entry carries a
\* previousHash), leaves verifyIntegrity() returning valid = true; deleting
\* a contiguous run from the middle yields exactly one failure, a 'Previous
\* hash mismatch' on the first entry after the gap.
C30_RemovalDetectedInMiddle ==
    (VerifiedAfterEdit /\ EditedKey = "removed") =>
       IF tamper[1].from = 1 \/ tamper[1].to = tamper[1].was
       THEN /\ ret.value.valid = TRUE
            /\ ret.value.failures = <<>>
            /\ ret.value.validEntries = Len(Stored)
            /\ (tamper[1].from = 1 /\ Len(Stored) > 0) =>
                  Stored[1].previousHash # Undefined
       ELSE /\ ret.value.valid = FALSE
            /\ Len(ret.value.failures) = 1
            /\ Reports(ret.value.failures[1], Stored[tamper[1].from],
                       PreviousHashMismatch)
            /\ ret.value.validEntries = Len(Stored) - 1

\* the second of three entries was removed: the entry after the gap is
\* reported
C30_Witness ==
    /\ VerifiedAfterEdit
    /\ EditedKey = "removed"
    /\ tamper[1].from = 2
    /\ tamper[1].to = 2
    /\ tamper[1].was = 3
    /\ Len(Stored) = 2
    /\ Len(ret.value.failures) = 1
    /\ ret.value.failures[1].auditId = Stored[2].auditId
    /\ ret.value.failures[1].reason = PreviousHashMismatch

\* ------------------------------------------- claims on verifying from a date
\* C31: verifyIntegrity(fromDate) reports only on entries whose timestamp is
\* at or after fromDate: when the content of an entry with an earlier
\* timestamp was modified and its stored entryHash left as it was, the
\* result is valid = true with no failure; and the result is valid = true
\* with entriesChecked = 0 whenever no entry falls in range.
C31_EarlierEntriesNotChecked ==
    (ret.op = "verifyIntegrity" /\ ret.arg # Undefined) =>
       /\ \A n \in 1..Len(ret.value.failures) :
             \E k \in 1..Len(Stored) :
                /\ InRange(Stored[k], ret.arg)
                /\ ret.value.failures[n].auditId = Stored[k].auditId
       /\ (/\ Len(tamper) = 1
           /\ EditedKey # "entryHash"
           /\ ~InRange(Stored[EditedIndex], ret.arg)) =>
             /\ ret.value.valid = TRUE
             /\ ret.value.failures = <<>>
       /\ (\A k \in 1..Len(Stored) : ~InRange(Stored[k], ret.arg)) =>
             /\ ret.value.valid = TRUE
             /\ ret.value.entriesChecked = 0

\* the rationale of the first of two entries was changed; verified from the
\* time of the second, the log is valid although the first entry's hash is
\* no longer that of its content
C31_Witness ==
    /\ ret.op = "verifyIntegrity"
    /\ ret.arg = IsoDate(2)
    /\ Len(tamper) = 1
    /\ EditedKey = "rationale"
    /\ EditedIndex = 1
    /\ Len(Stored) = 2
    /\ Stored[1].timestamp = IsoDate(1)
    /\ Stored[2].timestamp = IsoDate(2)
    /\ computeEntryHash(Stored[1]) # Stored[1].entryHash
    /\ ret.value.valid = TRUE
    /\ ret.value.entriesChecked = 1

\* ------------------------------------------- claims on unparseable lines
\* line k of a file of N lines, every one an entry of a valid chain, was
\* made unparseable, and every line written since is an entry
GarbledAt(k, N) ==
    /\ Len(tamper) = 1
    /\ tamper[1].key = "garbled"
    /\ tamper[1].k = k
    /\ tamper[1].len = N
    /\ \A i \in 1..Len(file) : i # k => IsJSON(file[i])

\* C32: when the line of entry k of a valid N-entry chain becomes
\* unparseable, the verifier takes the preceding parseable entry as
\* predecessor: for 1 < k < N entry k+1 is reported with 'Previous hash
\* mismatch' (expected = entry k-1's entryHash) and entriesChecked = N-1;
\* when k = N verifyIntegrity() returns valid = true, and a log() made
\* afterwards links to entry N-1 and the log still verifies as valid.
C32_UnparseableLine ==
    \A N \in 1..Len(file) : \A k \in 1..N :
       GarbledAt(k, N) =>
          /\ (ret.op = "verifyIntegrity" /\ 1 < k /\ k < N) =>
                /\ ret.value.failures =
                      <<[auditId |-> Stored[k].auditId,
                         timestamp |-> Stored[k].timestamp,
                         reason |-> PreviousHashMismatch,
                         expectedHash |-> Stored[k - 1].entryHash,
                         actualHash |-> Stored[k].previousHash]>>
                /\ Stored[k] = EntryRecord(JSONparse(file[k + 1]))
                /\ ret.value.entriesChecked = Len(file) - 1
          /\ (ret.op = "verifyIntegrity" /\ k = N) =>
                /\ ret.value.valid = TRUE
                /\ ret.value.entriesChecked = Len(file) - 1
          /\ (ret.op = "log" /\ k = N /\ Len(file) = N + 1) =>
                /\ ret.value.previousHash =
                      (IF N = 1 THEN Undefined ELSE Stored[N - 1].entryHash)
                /\ LastStored.entryHash = ret.value.entryHash
          /\ k = N => verifyIntegrity(file, Undefined).valid = TRUE

\* the last of two lines was made unparseable and an entry was logged
\* afterwards: it is linked to the first entry and the log verifies
C32_Witness ==
    /\ GarbledAt(2, 2)
    /\ ret.op = "verifyIntegrity"
    /\ Len(file) = 3
    /\ Len(Stored) = 2
    /\ Stored[2].previousHash = Stored[1].entryHash
    /\ ret.value.valid = TRUE
    /\ ret.value.entriesChecked = 2

\* C33: an append always produces a readable record: for every prior file
\* content, including one whose last line is a partial line with no
\* terminating newline, after a successful append(e) - log() returning e -
\* the readers return e as the last entry: getLastEntry() = e, e is found
\* by its identifier, and e is the last of the entries counted.
C33_AsClaimed ==
    ret.op = "log" =>
       /\ getLastEntry(file) = <<AsStored(ret.value)>>
       /\ getById(file, ret.value.auditId) = <<AsStored(ret.value)>>
       /\ count(file, <<>>) >= 1
       /\ Stored[count(file, <<>>)] = AsStored(ret.value)

\* what holds of C33: the entry is read back whenever its line did not go
\* onto an unterminated line
C33_UnlessJoined ==
    (ret.op = "log" /\ IsJSON(file[Len(file)])) =>
       /\ getLastEntry(file) = <<AsStored(ret.value)>>
       /\ getById(file, ret.value.auditId) = <<AsStored(ret.value)>>
       /\ Stored[count(file, <<>>)] = AsStored(ret.value)

\* a log() failed part way on the empty file and the next log() succeeded:
\* the file has one line, which no reader can parse
C33_Witness ==
    /\ ret.op = "log"
    /\ Len(file) = 1
    /\ file[1][1] = "text"
    /\ getLastEntry(file) = <<>>
    /\ getById(file, ret.value.auditId) = <<>>
    /\ count(file, <<>>) = 0

\* ------------------------------------------------- claims on sessions
\* C34: loggers returned by startSession share the storage and the single
\* chain of the logger they came from: for any sequential interleaving of
\* log() calls made through the parent and through session loggers, chain
\* linkage holds over the whole stored sequence and verifyIntegrity() is
\* valid; each entry logged through a session logger carries that logger's
\* sessionId (the one given to startSession, else a fresh identifier)
\* unless the call supplied its own; and startSession leaves the sessionId
\* of the logger it is called on - of every existing logger - unchanged.
C34_SessionsShareChain ==
    /\ [](/\ \A k \in 1..Len(Stored) :
                IF k = 1 THEN Stored[k].previousHash = Undefined
                ELSE Stored[k].previousHash = Stored[k - 1].entryHash
          /\ verifyIntegrity(file, Undefined).valid = TRUE
          /\ ret.op = "verifyIntegrity" =>
                ret.value.valid = TRUE /\ ret.value.validEntries = Len(Stored)
          /\ ret.op = "log" =>
                /\ ret.value.sessionId =
                      (IF ret.call.sessionId # Undefined THEN ret.call.sessionId
                       ELSE loggers[ret.arg[2]].sessionId)
                /\ LastStored.sessionId = ret.value.sessionId
          /\ ret.op = "startSession" =>
                /\ ret.value = Num(Len(loggers))
                /\ IF ret.arg # Undefined
                   THEN loggers[Len(loggers)].sessionId = ret.arg
                   ELSE TypeTag(loggers[Len(loggers)].sessionId) = "uuid"
          /\ loggers[1].sessionId = Undefined)
    /\ [][\A l \in 1..Len(loggers) : loggers'[l] = loggers[l]]_vars

\* three entries in one chain: through the parent, through a session logger
\* with the session's identifier, and through it with the call's own
C34_Witness ==
    /\ Len(loggers) = 2
    /\ loggers[2].sessionId = Str("S-1")
    /\ Len(Stored) = 3
    /\ Stored[1].sessionId = Undefined
    /\ Stored[2].sessionId = Str("S-1")
    /\ Stored[3].sessionId = Str("S-2")
    /\ ret.op = "log"
    /\ ret.arg = Num(2)
    /\ Stored[3].previousHash = Stored[2].entryHash
    /\ verifyIntegrity(file, Undefined).valid = TRUE

\* ------------------------------------------- claims on boolean filters
HasRiskFlags(e) == Len(Get(e.compliance, "riskFlags")[2]) > 0

\* C35: the two boolean filters of query differ when false:
\* humanReviewRequired = false returns only the entries whose
\* compliance.humanReviewRequired is false, while hasRiskFlags = false
\* applies no filter at all and returns entries with and without risk
\* flags, exactly as when hasRiskFlags is absent.
C35_BooleanFiltersWhenFalse ==
    /\ (ret.op = "query" /\ ret.arg = [NoFilter EXCEPT !.humanReviewRequired = Bool(FALSE)]) =>
          ret.value = SelectSeq(Stored, LAMBDA e : HumanReview(e) = Bool(FALSE))
    /\ (ret.op = "query" /\ ret.arg.hasRiskFlags = Bool(FALSE)) =>
          /\ ret.value = query(file, [ret.arg EXCEPT !.hasRiskFlags = Undefined])
          /\ ret.arg = [NoFilter EXCEPT !.hasRiskFlags = Bool(FALSE)] =>
                ret.value = Stored

\* hasRiskFlags = false on a log of three entries, one with risk flags, one
\* without, one needing human review: all three are returned, where
\* humanReviewRequired = false returns two
C35_Witness ==
    /\ ret.op = "query"
    /\ ret.arg = [NoFilter EXCEPT !.hasRiskFlags = Bool(FALSE)]
    /\ Len(Stored) = 3
    /\ \E k \in 1..3 : HasRiskFlags(Stored[k])
    /\ \E k \in 1..3 : ~HasRiskFlags(Stored[k])
    /\ \E k \in 1..3 : HumanReview(Stored[k]) = Bool(TRUE)
    /\ ret.value = Stored
    /\ Len(query(file, [NoFilter EXCEPT !.humanReviewRequired = Bool(FALSE)])) = 2

====
